---------------------------- MODULE Spec2Model ----------------------------
(***************************************************************************)
(* Model of src/bot.py: a chat ordering assistant that keeps all durable   *)
(* state in a remote hierarchical key-value store (Firebase RTDB).         *)
(*                                                                         *)
(*   - State Store              set_user_state / get_user_state / clear    *)
(*   - Aggregate Updater        add_order_to_restaurant,                   *)
(*                              increment_rest_orders_count (transactions) *)
(*   - Conversation machine     general_text_handler, callback_handler,    *)
(*                              handle_location, handle_photo, commands    *)
(*   - Deferred job scheduler   schedule_order_notification,               *)
(*                              restore_scheduled_orders                   *)
(*   - Notification dispatcher  send_restaurant_notification               *)
(*                                                                         *)
(* Store records are maps with optional keys; they are modelled as         *)
(* functions whose DOMAIN is the set of keys that are present.             *)
(***************************************************************************)
EXTENDS Integers, Sequences, FiniteSets, TLC

(***************************************************************************)
(* Bounds of the model                                                     *)
(***************************************************************************)
NCallers == 2
\* concurrent callers of the aggregate updater
MaxCalls == 3
\* calls the concurrent callers make in all
MaxTime == 4
\* the clock runs 0..MaxTime (seconds)
MaxOrders == 2
\* order ids that make_order_id can hand out
MaxRests == 3
\* vendor ids that exist or that make_rest_id can hand out

(***************************************************************************)
(* Program constants                                                       *)
(***************************************************************************)
MisfireGraceTime == 1
\* seconds; the job default of BackgroundScheduler() (bot.py:73), which
\* add_job (bot.py:222) does not override
RadiusM == 10000
\* radius_km = 10.0 of find_restaurants_near_user, in metres
ResultLimit == 15
\* distances[:15]

VARIABLES
    ustate,        \* actor -> persisted ConversationState (users/<id>/state)
    uphone,        \* actor -> stored phone, or "none"
    ulastloc,      \* actor -> last_location, or -1
    vendors,       \* rid -> Vendor record (restaurants/<rid>)
    orders,        \* oid -> Order record (orders/<oid>)
    gfoods,        \* names in the global food list (foods/<fid>)
    restSeq,       \* vendor ids handed out so far
    jobs,          \* in-memory scheduler: oid -> [run_at, chat]
    now,           \* the clock
    booted,        \* restore_scheduled_orders has run in this process
    dispatchCount, \* oid -> dispatcher invocations in this process
    pastDue,       \* order ids restored with a fire instant already past
    lastOut,       \* outbound messages of the last step
    lastEvent,     \* the last step taken
    txn,           \* caller -> transaction in flight
    txnCalls,      \* aggregate-updater calls issued so far
    txnRetried,    \* some transaction met a conflict and retried
    appended,      \* order ids whose append call has been issued
    deltaSum,      \* sum of the deltas of the increment calls issued
    work           \* worker thread -> the handler run it is in

vars == <<ustate, uphone, ulastloc, vendors, orders, gfoods, restSeq, jobs, now, booted,
          dispatchCount, pastDue, lastOut, lastEvent, txn, txnCalls, txnRetried,
          appended, deltaSum, work>>

userVars == <<ustate, uphone, ulastloc>>
schedVars == <<jobs, now, booted, dispatchCount, pastDue>>
txnVars == <<txn, txnCalls, txnRetried, appended, deltaSum>>
auxVars == <<gfoods, restSeq, work>>

(***************************************************************************)
(* Maps with optional keys                                                 *)
(***************************************************************************)
EmptyMap == [k \in {} |-> TRUE]

Has(m, k) == k \in DOMAIN m

\* dict.get(k) as an option: absent keys read as None
Opt(m, k) == IF k \in DOMAIN m THEN [has |-> TRUE, val |-> m[k]] ELSE [has |-> FALSE]

Some(v) == [has |-> TRUE, val |-> v]

\* truthiness of state.get(k) for a boolean flag
Flag(m, k) == k \in DOMAIN m /\ m[k] = TRUE

Without(m, ks) == [k \in DOMAIN m \ ks |-> m[k]]

Put(m, k, v) == (k :> v) @@ m

SeqToSet(s) == {s[i] : i \in 1..Len(s)}

Callers == 1..NCallers
OrderIds == 1..MaxOrders
RestIds == 1..MaxRests
Actors == {1, 2}


(***************************************************************************)
(* Durable store: the Vendor collection                                    *)
(***************************************************************************)
\* restaurants/<rid> read as a dict; a missing record reads as {}
VendorRec(vs, rid) == IF rid \in DOMAIN vs THEN vs[rid] ELSE EmptyMap

\* ref.child(k).set(v) under restaurants/<rid>: creates the record if needed
VendorPut(vs, rid, k, v) == Put(vs, rid, Put(VendorRec(vs, rid), k, v))

(***************************************************************************)
(* Aggregate Updater                                                       *)
(***************************************************************************)
\* txn of add_order_to_restaurant: the list is stored as a plain sequence
\* (the dict form of the store is the same values in key order)
AddOrderTxn(current, order_id) ==
    IF ~current.has THEN <<order_id>>
    ELSE IF order_id \notin SeqToSet(current.val) THEN Append(current.val, order_id)
    ELSE current.val

\* a counter update that does not read the stored value
IncrementTxn_Overwrite(current, delta) == delta

\* txn of increment_rest_orders_count
IncrementTxn(current, delta) ==
    (IF ~current.has THEN 0 ELSE current.val) + delta

\* a store that writes without comparing: the lost-update bug
CasCommit_Blind(stored, snap) == TRUE

\* ref.transaction: the store commits only if the value is the one that was read
CasCommit(stored, snap) == stored = snap

\* an uncontended add_order_to_restaurant, as one step
AddOrderToRestaurant(vs, rid, oid) ==
    VendorPut(vs, rid, "orders", AddOrderTxn(Opt(VendorRec(vs, rid), "orders"), oid))

\* an uncontended increment_rest_orders_count, as one step
IncrementRestOrdersCount(vs, rid, delta) ==
    VendorPut(vs, rid, "orders_count",
              IncrementTxn(Opt(VendorRec(vs, rid), "orders_count"), delta))

(***************************************************************************)
(* Concurrent callers of the Aggregate Updater on one vendor               *)
(***************************************************************************)
TxnRest == 1
TxnDeltas == {1, 2}
TxnIdle == [pc |-> "idle"]

\* a worker thread of the bot with no handler running
WorkIdle == [pc |-> "idle"]

TxnField(kind) == IF kind = "add" THEN "orders" ELSE "orders_count"

TxnApply(kind, snap, arg) ==
    IF kind = "add" THEN AddOrderTxn(snap, arg) ELSE IncrementTxn(snap, arg)

\* add_order_to_restaurant is called: the transaction reads the current value
AddOrderStart(c, oid) ==
    /\ txn[c].pc = "idle"
    /\ txnCalls < MaxCalls
    /\ txn' = [txn EXCEPT ![c] = [pc |-> "cas", kind |-> "add", arg |-> oid,
                                  snap |-> Opt(VendorRec(vendors, TxnRest), "orders")]]
    /\ txnCalls' = txnCalls + 1
    /\ appended' = appended \cup {oid}
    /\ UNCHANGED <<userVars, auxVars, vendors, orders, schedVars, lastOut, lastEvent,
                   txnRetried, deltaSum>>

\* increment_rest_orders_count is called: the transaction reads the counter
IncrementStart(c, d) ==
    /\ txn[c].pc = "idle"
    /\ txnCalls < MaxCalls
    /\ txn' = [txn EXCEPT ![c] = [pc |-> "cas", kind |-> "inc", arg |-> d,
                                  snap |-> Opt(VendorRec(vendors, TxnRest), "orders_count")]]
    /\ txnCalls' = txnCalls + 1
    /\ deltaSum' = deltaSum + d
    /\ UNCHANGED <<userVars, auxVars, vendors, orders, schedVars, lastOut, lastEvent,
                   txnRetried, appended>>

\* the store's compare-and-set: commit, or hand back the current value and retry
TxnCommit(c) ==
    /\ txn[c].pc = "cas"
    /\ LET f == TxnField(txn[c].kind)
           stored == Opt(VendorRec(vendors, TxnRest), f)
       IN IF CasCommit(stored, txn[c].snap)
          THEN /\ vendors' = VendorPut(vendors, TxnRest, f,
                                       TxnApply(txn[c].kind, txn[c].snap, txn[c].arg))
               /\ txn' = [txn EXCEPT ![c] = TxnIdle]
               /\ UNCHANGED txnRetried
          ELSE /\ txn' = [txn EXCEPT ![c].snap = stored]
               /\ txnRetried' = TRUE
               /\ UNCHANGED vendors
    /\ UNCHANGED <<userVars, auxVars, orders, schedVars, lastOut, lastEvent, txnCalls,
                   appended, deltaSum>>

InitCommon ==
    /\ ustate = [u \in Actors |-> EmptyMap]
    /\ uphone = [u \in Actors |-> "none"]
    /\ ulastloc = [u \in Actors |-> -1]
    /\ orders = EmptyMap
    /\ gfoods = {}
    /\ restSeq = TxnRest
    /\ jobs = EmptyMap
    /\ now = 0
    /\ booted = TRUE
    /\ dispatchCount = [o \in OrderIds |-> 0]
    /\ pastDue = {}
    /\ lastOut = <<>>
    /\ lastEvent = [kind |-> "init"]
    /\ txn = [c \in Callers |-> TxnIdle]
    /\ txnCalls = 0
    /\ txnRetried = FALSE
    /\ appended = {}
    /\ deltaSum = 0
    /\ work = [c \in Callers |-> WorkIdle]

InitTxn ==
    /\ InitCommon
    /\ vendors = (TxnRest :> ("name" :> "Taco"))

NextTxn ==
    \/ \E c \in Callers, oid \in OrderIds : AddOrderStart(c, oid)
    \/ \E c \in Callers, d \in TxnDeltas : IncrementStart(c, d)
    \/ \E c \in Callers : TxnCommit(c)

SpecTxn == InitTxn /\ [][NextTxn]_vars

TxnQuiescent == \A c \in Callers : txn[c].pc = "idle"

\* C1: whenever no transaction is in flight, the vendor's orders list holds
\* exactly the distinct order ids that were appended, each once, and
\* orders_count is the sum of the deltas: no interleaving loses an update.
C1_NoLostUpdate ==
    TxnQuiescent =>
        LET v == VendorRec(vendors, TxnRest)
            lst == IF Has(v, "orders") THEN v["orders"] ELSE <<>>
            cnt == IF Has(v, "orders_count") THEN v["orders_count"] ELSE 0
        IN /\ SeqToSet(lst) = appended
           /\ Len(lst) = Cardinality(appended)
           /\ cnt = deltaSum

\* C1 witness: all calls are done, one of them had to retry after a conflict,
\* and two distinct ids and several deltas went in.
C1_Witness ==
    /\ TxnQuiescent
    /\ txnCalls = MaxCalls
    /\ txnRetried
    /\ Cardinality(appended) >= 2
    /\ deltaSum >= 2


(***************************************************************************)
(* Notification Dispatcher                                                 *)
(***************************************************************************)
\* datetime.isoformat(): the stored form of an instant
IsoFormat(t) == <<"iso", t>>

\* dateparser.parse of a stored scheduled_for
DateParse(iso) == iso[2]

\* the None that rest.get("chat_id") or rest.get("manager_chat_id") may yield
NoChat == 0

\* rest.get("chat_id") or rest.get("manager_chat_id")
RestChatId(vs, rid) ==
    LET r == VendorRec(vs, rid)
    IN IF Has(r, "chat_id") THEN r["chat_id"]
       ELSE IF Has(r, "manager_chat_id") THEN r["manager_chat_id"]
       ELSE NoChat

\* a dispatcher that does not look at the order's status
SendRestaurantNotification_NoGuard(os, restaurant_chat_id, order_id) ==
    IF restaurant_chat_id = NoChat THEN <<>>
    ELSE <<[to |-> restaurant_chat_id, kind |-> "new_order", order |-> order_id]>>

\* send_restaurant_notification: the messages it sends (it writes nothing).
\* A send to a missing chat id raises inside the try and is swallowed.
SendRestaurantNotification(os, restaurant_chat_id, order_id) ==
    IF order_id \notin DOMAIN os \/ os[order_id]["status"] = "served" THEN <<>>
    ELSE IF restaurant_chat_id = NoChat THEN <<>>
    ELSE <<[to |-> restaurant_chat_id, kind |-> "new_order", order |-> order_id]>>

(***************************************************************************)
(* Deferred Job Scheduler                                                  *)
(***************************************************************************)
\* add_job without replace_existing: a job already held under the id stays
ScheduleOrderNotification_KeepExisting(js, order_id, run_at, restaurant_chat_id) ==
    IF order_id \in DOMAIN js THEN js
    ELSE Put(js, order_id, [run_at |-> run_at, chat |-> restaurant_chat_id])

\* schedule_order_notification: add_job(id = order_<id>, replace_existing = True)
ScheduleOrderNotification(js, order_id, run_at, restaurant_chat_id) ==
    Put(js, order_id, [run_at |-> run_at, chat |-> restaurant_chat_id])

RECURSIVE RestoreJobs_AnyStatus(_, _, _)
\* a restore loop without the status test of bot.py:1599
RestoreJobs_AnyStatus(js, os, todo) ==
    IF todo = {} THEN js
    ELSE LET oid == CHOOSE x \in todo : TRUE
             o == os[oid]
         IN RestoreJobs_AnyStatus(
                ScheduleOrderNotification(js, oid, DateParse(o["scheduled_for"]),
                                          RestChatId(vendors, o["restaurant_id"])),
                os, todo \ {oid})

RECURSIVE RestoreJobs(_, _, _)
\* the loop of restore_scheduled_orders over the ids in todo
RestoreJobs(js, os, todo) ==
    IF todo = {} THEN js
    ELSE LET oid == CHOOSE x \in todo : TRUE
             o == os[oid]
             next == IF o["status"] # "scheduled" THEN js
                     ELSE ScheduleOrderNotification(js, oid, DateParse(o["scheduled_for"]),
                                                    RestChatId(vendors, o["restaurant_id"]))
         IN RestoreJobs(next, os, todo \ {oid})

\* restore_scheduled_orders, called once when the process starts
RestoreScheduledOrders ==
    /\ ~booted
    /\ jobs' = RestoreJobs(jobs, orders, DOMAIN orders)
    /\ booted' = TRUE
    /\ pastDue' = {o \in DOMAIN orders : /\ orders[o]["status"] = "scheduled"
                                         /\ DateParse(orders[o]["scheduled_for"]) < now}
    /\ lastOut' = <<>>
    /\ lastEvent' = [kind |-> "restore"]
    /\ UNCHANGED <<userVars, auxVars, vendors, orders, now, dispatchCount, txnVars>>

JobDue(oid) == oid \in DOMAIN jobs /\ jobs[oid].run_at <= now

\* the executor's misfire test: the run time was missed by more than the grace time
Misfired(run_at) == now - run_at > MisfireGraceTime

\* what bot.send_message can do with the messages out: deliver them (TRUE)
\* or raise from the transport (FALSE)
SendOutcomes(out) == IF out = <<>> THEN {TRUE} ELSE BOOLEAN

\* a scheduler that keeps the job of a failed run for another run
AfterDispatch_Retry(js, oid, ok) == IF ok THEN Without(js, {oid}) ELSE js

\* the job store after a date-trigger job ran: the job has no next run time,
\* whatever its function did
AfterDispatch(js, oid, ok) == Without(js, {oid})

\* the scheduler thread runs a due job: the dispatcher is called, the job is
\* dropped; an exception of the send is swallowed by the dispatcher's except
FireJob(oid) ==
    /\ booted
    /\ JobDue(oid)
    /\ ~Misfired(jobs[oid].run_at)
    /\ \E ok \in SendOutcomes(SendRestaurantNotification(orders, jobs[oid].chat, oid)) :
          /\ lastOut' = IF ok THEN SendRestaurantNotification(orders, jobs[oid].chat, oid)
                        ELSE <<>>
          /\ jobs' = AfterDispatch(jobs, oid, ok)
          /\ lastEvent' = [kind |-> "fire", order |-> oid, ok |-> ok]
    /\ dispatchCount' = [dispatchCount EXCEPT ![oid] = @ + 1]
    /\ UNCHANGED <<userVars, auxVars, vendors, orders, now, booted, pastDue, txnVars>>

\* the scheduler thread finds a due job past its grace time: it is dropped unrun
MissJob(oid) ==
    /\ booted
    /\ JobDue(oid)
    /\ Misfired(jobs[oid].run_at)
    /\ jobs' = Without(jobs, {oid})
    /\ lastOut' = <<>>
    /\ lastEvent' = [kind |-> "missed", order |-> oid]
    /\ UNCHANGED <<userVars, auxVars, vendors, orders, now, booted, dispatchCount, pastDue, txnVars>>

\* a second passes; a running scheduler wakes for its due jobs before that
Tick ==
    /\ now < MaxTime
    /\ booted => \A oid \in DOMAIN jobs : ~JobDue(oid)
    /\ now' = now + 1
    /\ lastOut' = <<>>
    /\ lastEvent' = [kind |-> "tick"]
    /\ UNCHANGED <<userVars, auxVars, vendors, orders, jobs, booted, dispatchCount, pastDue, txnVars>>

\* the process stops: the in-memory job store is gone
Restart ==
    /\ booted
    /\ jobs' = EmptyMap
    /\ booted' = FALSE
    /\ dispatchCount' = [o \in OrderIds |-> 0]
    /\ pastDue' = {}
    /\ lastOut' = <<>>
    /\ lastEvent' = [kind |-> "restart"]
    /\ UNCHANGED <<userVars, auxVars, vendors, orders, now, txnVars>>

\* the vendor marks an order served (the trigger is outside bot.py)
ExternalMarkServed(oid) ==
    /\ oid \in DOMAIN orders
    /\ orders[oid]["status"] = "scheduled"
    /\ orders' = [orders EXCEPT ![oid] = Put(@, "status", "served")]
    /\ lastOut' = <<>>
    /\ lastEvent' = [kind |-> "mark_served", order |-> oid]
    /\ UNCHANGED <<userVars, auxVars, vendors, schedVars, txnVars>>

SchedTimes == 0..2
SchedRest == 1

PersistedOrder(st, t) ==
    [status |-> st, scheduled_for |-> IsoFormat(t), restaurant_id |-> SchedRest,
     total_price |-> 1000, user_id |-> 1, phone |-> "p1"]

PersistedOrders ==
    {[o \in D |-> PersistedOrder(f[o][1], f[o][2])] :
        f \in [OrderIds -> {"scheduled", "served"} \X SchedTimes], D \in SUBSET OrderIds}

\* a process start over a store that already holds orders
InitSched ==
    /\ ustate = [u \in Actors |-> EmptyMap]
    /\ uphone = [u \in Actors |-> "p1"]
    /\ ulastloc = [u \in Actors |-> -1]
    /\ vendors = (SchedRest :> [name |-> "Taco", manager_chat_id |-> 2])
    /\ orders \in PersistedOrders
    /\ gfoods = {}
    /\ restSeq = SchedRest
    /\ jobs = EmptyMap
    /\ now = 0
    /\ booted = FALSE
    /\ dispatchCount = [o \in OrderIds |-> 0]
    /\ pastDue = {}
    /\ lastOut = <<>>
    /\ lastEvent = [kind |-> "init"]
    /\ txn = [c \in Callers |-> TxnIdle]
    /\ txnCalls = 0
    /\ txnRetried = FALSE
    /\ appended = {}
    /\ deltaSum = 0
    /\ work = [c \in Callers |-> WorkIdle]

NextSched ==
    \/ RestoreScheduledOrders
    \/ \E oid \in OrderIds : FireJob(oid)
    \/ \E oid \in OrderIds : MissJob(oid)
    \/ Tick
    \/ Restart
    \/ \E oid \in OrderIds : ExternalMarkServed(oid)

SpecSched == InitSched /\ [][NextSched]_vars

\* C2: every order that restore_scheduled_orders registered with a fire
\* instant already in the past has, once the scheduler has processed its
\* job, been handed to the dispatcher exactly once.
C2_PastDueFiredOnce ==
    \A o \in pastDue : o \notin DOMAIN jobs => dispatchCount[o] = 1

\* C3: a dispatcher call for an order that has no record or is served sends
\* no message and leaves the store as it was.
C3_DispatchIdempotent ==
    [][\A o \in OrderIds :
          (/\ dispatchCount'[o] = dispatchCount[o] + 1
           /\ (o \notin DOMAIN orders \/ orders[o]["status"] = "served"))
          => /\ lastOut' = <<>>
             /\ UNCHANGED <<orders, vendors, userVars>>]_vars

\* C3 witness: the dispatcher has just run for an order that is served.
C3_Witness ==
    /\ lastEvent.kind = "fire"
    /\ lastEvent.order \in DOMAIN orders
    /\ orders[lastEvent.order]["status"] = "served"
    /\ lastOut = <<>>

(***************************************************************************)
(* State Store                                                             *)
(***************************************************************************)
\* keys of a ConversationState whose value is itself a mapping
MapKeys == {"data", "new_rest", "pending_rest", "pending_order", "food", "food_data"}

\* the store keeps no empty mapping: a key written as {} is absent afterwards
StoreNorm(m) ==
    [k \in {x \in DOMAIN m : ~(x \in MapKeys /\ DOMAIN m[x] = {})} |-> m[k]]

\* a State Store whose set replaces the stored mapping
SetUserState_Replace(st, state_dict) == StoreNorm(state_dict)

\* set_user_state: child("state").update(state_dict) merges the given keys into
\* the stored mapping; update({}) raises, and the fallback set({}) empties it
SetUserState(st, state_dict) ==
    IF DOMAIN state_dict = {} THEN EmptyMap
    ELSE StoreNorm(state_dict @@ st)

\* a clear_user_state that leaves the record as it is
ClearUserState_Keep(st) == st

\* clear_user_state: child("state").set({})
ClearUserState(st) == EmptyMap

(***************************************************************************)
(* Inbound text and how the handlers read it                               *)
(***************************************************************************)
\* str.lower() on the texts of the model
Lower(t) ==
    CASE t = "Pizza Place" -> "pizza place"
      [] t = "Taco" -> "taco"
      [] t = "ASAP" -> "asap"
      [] t = "Now" -> "now"
      [] OTHER -> t

\* dateparser.parse(text) as an instant, or -1 when it raises
ParseDateText(t) ==
    CASE t = "2030-01-01 10:00" -> 3
      [] t = "2020-01-01 10:00" -> 1
      [] OTHER -> -1

\* parse_price(text) in cents, or -1 for None
ParsePrice(t) ==
    CASE t = "5" -> 500
      [] t = "5.00" -> 500
      [] t = "7.50" -> 750
      [] t = "0" -> 0
      [] OTHER -> -1

\* float(x) of a stored or typed price in cents; -1 when float() raises.
\* Unlike parse_price it accepts a sign.
ParseFloat(t) ==
    CASE t = "-5" -> -500
      [] OTHER -> ParsePrice(t)

\* the number of "|"-separated parts of a text
PipeParts(t) ==
    CASE t = "Burger | 1 | Beef" -> 3
      [] t = "Burger | x | Beef" -> 3
      [] t = "Wrap | salad | 5.00 | 1" -> 4
      [] OTHER -> 1

\* int(text) succeeds
IsInt(t) == t \in {"5", "0"}

\* query in str(value).lower(): substring test on the texts of the model
Contains(q, v) ==
    \/ Lower(q) = Lower(v)
    \/ <<Lower(q), Lower(v)>> \in {<<"pizza", "pizza place">>, <<"p", "p1">>, <<"p", "p2">>}

(***************************************************************************)
(* A handler run: what it has written and sent so far                      *)
(***************************************************************************)
ADMINS == {1}

NoSet == [has |-> FALSE]

Ctx0(u) ==
    [st |-> ustate[u], lastloc |-> ulastloc[u], phone |-> uphone[u],
     vendors |-> vendors, orders |-> orders, gfoods |-> gfoods, restSeq |-> restSeq,
     jobs |-> jobs, out |-> <<>>, tag |-> "fall", set |-> NoSet, by |-> "none",
     log |-> <<>>, appendOk |-> TRUE, countOk |-> TRUE]

\* bot.send_message(to, ...)
Send(ctx, to, text) ==
    [ctx EXCEPT !.out = Append(@, [to |-> to, text |-> text]), !.log = Append(@, "send")]

\* set_user_state(user_id, m) inside a handler
CtxSet(ctx, m) ==
    [ctx EXCEPT !.st = SetUserState(@, m), !.set = [has |-> TRUE, m |-> m],
                !.log = Append(@, "set")]

\* clear_user_state(user_id) inside a handler
CtxClear(ctx) ==
    [ctx EXCEPT !.st = ClearUserState(@), !.set = NoSet, !.log = Append(@, "set")]

\* the handler returns
Ret(ctx, tag) == [ctx EXCEPT !.tag = tag]

\* the handler raises: what it wrote before stays written
Raise(ctx) == [ctx EXCEPT !.tag = "exception"]

Handled(ctx) == ctx.tag # "fall"


(***************************************************************************)
(* Vendor helpers                                                          *)
(***************************************************************************)
RECURSIVE SortedSeq(_)
\* the ids of a collection in key order, as the store returns them
SortedSeq(S) ==
    IF S = {} THEN <<>>
    ELSE LET x == CHOOSE y \in S : \A z \in S : y <= z
         IN <<x>> \o SortedSeq(S \ {x})

\* rest.get("foods", []) as the items a loop sees; a keyed mapping is flagged
FoodsOf(r) == IF Has(r, "foods") THEN r["foods"] ELSE [kind |-> "list", items |-> <<>>]

\* get_restaurant_ref(rid).child("foods").child(food_id).set(food): the new
\* child makes the stored foods a keyed mapping
FoodsAddChild(vs, rid, food) ==
    VendorPut(vs, rid, "foods",
              [kind |-> "dict", items |-> Append(FoodsOf(VendorRec(vs, rid)).items, food)])

\* every vendor record has a name (r["name"] does not raise)
AllNamed(vs) == \A rid \in DOMAIN vs : Has(vs[rid], "name")

\* any(r.get("name", "").lower() == name.lower() for r in all_rest.values())
NameTaken(vs, name) ==
    \E rid \in DOMAIN vs : Has(vs[rid], "name") /\ Lower(vs[rid]["name"]) = Lower(name)

\* the vendors whose name contains the query, in key order
NameMatches(vs, q) ==
    SortedSeq({rid \in DOMAIN vs : Has(vs[rid], "name") /\ Contains(q, vs[rid]["name"])})

\* bot.send_message with a list of vendors attached
SendList(ctx, to, text, list) ==
    [ctx EXCEPT !.out = Append(@, [to |-> to, text |-> text, list |-> list]),
                !.log = Append(@, "send")]

(***************************************************************************)
(* general_text_handler, block by block in source order.  s is the state   *)
(* read at entry; a block that does not return yields tag "fall".          *)
(***************************************************************************)
\* handle_search_restaurant_query
HandleSearchRestaurantQuery(ctx, u, q) ==
    LET res == NameMatches(ctx.vendors, q)
    IN IF res = <<>> THEN Send(ctx, u, "No restaurants found.")
       ELSE SendList(ctx, u, "Results:", res)

\* handle_search_food_query: a vendor whose foods are a keyed mapping makes
\* f.get raise
HandleSearchFoodQuery(ctx, u, q) ==
    LET vs == ctx.vendors
        res == SortedSeq({rid \in DOMAIN vs :
                   \E i \in 1..Len(FoodsOf(vs[rid]).items) :
                       Contains(q, FoodsOf(vs[rid]).items[i].name)})
    IN IF \E rid \in DOMAIN vs : FoodsOf(vs[rid]).kind = "dict" THEN Raise(ctx)
       ELSE IF res = <<>> THEN Ret(Send(ctx, u, "No matches."), "search_food")
       ELSE Ret(SendList(ctx, u, "Results:", res), "search_food")

\* bot.py:590-617
BlockAddFoodMode(u, text, s, ctx) ==
    IF ~Flag(s, "add_food_mode") THEN ctx
    ELSE IF ~Has(s, "rid") \/ ~Has(s, "step") THEN Raise(ctx)
    ELSE IF s["step"] = "name"
         THEN Ret(Send(CtxSet(ctx, Put(Put(s, "food", ("name" :> text)), "step", "price")),
                       u, "Send food price:"), "add_food_mode_name")
    ELSE IF s["step"] = "price"
         THEN IF ParsePrice(text) <= 0
              THEN Ret(Send(ctx, u, "Invalid price."), "add_food_mode_badprice")
              ELSE IF ~Has(s, "food") THEN Raise(ctx)
              ELSE Ret(Send(CtxClear([ctx EXCEPT !.vendors =
                                FoodsAddChild(@, s["rid"], Put(s["food"], "price", text))]),
                            u, "food added to restaurant."), "add_food_mode_price")
    ELSE ctx

\* bot.py:619-631
BlockAwaitingSearch(u, text, s, ctx) ==
    IF ~Flag(s, "awaiting_search") THEN ctx
    ELSE LET c1 == CtxSet(ctx, EmptyMap)
             ty == IF Has(s, "awaiting_search_type") THEN s["awaiting_search_type"] ELSE "none"
         IN IF ty = "restaurant" THEN Ret(HandleSearchRestaurantQuery(c1, u, text), "search_restaurant")
            ELSE IF ty = "food" THEN HandleSearchFoodQuery(c1, u, text)
            ELSE c1

\* bot.py:635-695
BlockEditingRest(u, text, s, ctx) ==
    IF ~Flag(s, "editing_rest") THEN ctx
    ELSE IF ~Has(s, "rid") THEN Raise(ctx)
    ELSE LET base == ("editing_rest" :> TRUE) @@ ("rid" :> s["rid"])
         IN IF text = "Name"
            THEN Ret(Send(CtxSet(ctx, Put(base, "edit_step", "name")), u,
                          "Send new restaurant name:"), "edit_choose_name")
            ELSE IF text = "Location"
            THEN Ret(Send(CtxSet(ctx, Put(base, "edit_step", "location")), u,
                          "Share new location:"), "edit_choose_location")
            ELSE IF text = "Image"
            THEN Ret(Send(CtxSet(ctx, Put(base, "edit_step", "image")), u,
                          "Send new restaurant photo:"), "edit_choose_image")
            ELSE IF text = "Add Food"
            THEN Ret(Send(CtxSet(ctx, base), u, "How do you want to add food?"),
                     "edit_choose_add_food")
            ELSE IF text = "Cancel"
            THEN Ret(Send(CtxClear(ctx), u, "Edit cancelled."), "edit_cancel")
            ELSE ctx

\* bot.py:696-702
BlockEditName(u, text, s, ctx) ==
    IF ~(Flag(s, "editing_rest") /\ Has(s, "edit_step") /\ s["edit_step"] = "name") THEN ctx
    ELSE Ret(Send(CtxClear([ctx EXCEPT !.vendors = VendorPut(@, s["rid"], "name", text)]),
                  u, "Restaurant name updated."), "edit_name")

\* build_restaurant_page(0, search) as called from the text handler
BuildRestaurantPage(ctx, u, search) ==
    IF ~AllNamed(ctx.vendors) THEN Raise(ctx)
    ELSE Ret(SendList(ctx, u, "Search results", NameMatches(ctx.vendors, search)),
             "edit_search")

\* bot.py:703-711
BlockAwaitingEditSearch(u, text, s, ctx) ==
    IF ~Flag(s, "awaiting_edit_search") THEN ctx
    ELSE BuildRestaurantPage(CtxClear(ctx), u, text)

\* bot.py:713-733
BlockAwaitingFoodData(u, text, s, ctx) ==
    IF ~Flag(s, "awaiting_food_data") THEN ctx
    ELSE IF PipeParts(text) # 3 THEN Ret(Send(ctx, u, "Invalid format."), "food_data_bad")
    ELSE IF text = "Burger | x | Beef" THEN Raise(ctx)
    ELSE Ret(Send(CtxClear([ctx EXCEPT !.gfoods = @ \cup {"Burger"}]), u,
                  "Food added successfully"), "food_data")


(***************************************************************************)
(* Distance search                                                         *)
(***************************************************************************)
Abs(x) == IF x < 0 THEN -x ELSE x

\* haversine(lon1, lat1, lon2, lat2) in metres.  Coordinates are hundredths of
\* a degree and the points of the model lie on one meridian, where the formula
\* reduces to the arc 6371 km * dlat: 1111.949 m per hundredth of a degree.
Haversine(lon1, lat1, lon2, lat2) == (1111949 * Abs(lat1 - lat2)) \div 1000

RECURSIVE SortByDist(_, _)
\* distances.sort(key = dist): stable, over the vendors in key order
SortByDist(S, d) ==
    IF S = {} THEN <<>>
    ELSE LET x == CHOOSE y \in S : \A z \in S : d[y] < d[z] \/ (d[y] = d[z] /\ y <= z)
         IN <<[rid |-> x, dist |-> d[x]]>> \o SortByDist(S \ {x}, d)

Take(s, n) == SubSeq(s, 1, IF Len(s) < n THEN Len(s) ELSE n)

\* the (dist, rid) list built by find_restaurants_near_user before it is sent
NearList(vs, lat, lon) ==
    LET located == {rid \in DOMAIN vs : Has(vs[rid], "location")}
        d == [rid \in located |->
                 Haversine(lon, lat, vs[rid]["location"].lon, vs[rid]["location"].lat)]
    IN SortByDist({rid \in located : d[rid] <= RadiusM}, d)

\* find_restaurants_near_user
FindRestaurantsNearUser(ctx, u, lat, lon) ==
    LET lst == Take(NearList(ctx.vendors, lat, lon), ResultLimit)
    IN IF lst = <<>> THEN Send(ctx, u, "No restaurants found within 10 km.")
       ELSE IF \E i \in 1..Len(lst) : ~Has(ctx.vendors[lst[i].rid], "name") THEN Raise(ctx)
       ELSE SendList(ctx, u, "Restaurants within 10 km:", lst)


\* an id generator that hands out the same id again
NewOrderId_Reuse(os) == CHOOSE x \in OrderIds : \A y \in OrderIds : x <= y

\* make_order_id: an id no order has; 0 when the ids of the model are used up
NewOrderId(os) ==
    IF OrderIds \subseteq DOMAIN os THEN 0
    ELSE CHOOSE x \in OrderIds \ DOMAIN os : \A y \in OrderIds \ DOMAIN os : x <= y

\* display name of an actor (message.from_user.full_name)
UserName(x) == IF x = 1 THEN "Ann" ELSE "Bob"

\* the users a manager query matches, in key order (bot.py:855-857)
ManagerMatches(q) ==
    SortedSeq({x \in Actors : uphone[x] # "none" /\
                  (Contains(q, uphone[x]) \/ Contains(q, UserName(x)))})

\* bot.py:734-801
BlockRegRest(u, text, s, ctx) ==
    IF ~Has(s, "reg_rest_step") THEN ctx
    ELSE IF ~Has(s, "new_rest") THEN Raise(ctx)
    ELSE LET step == s["reg_rest_step"]
             data == s["new_rest"]
         IN IF step = "name"
            THEN IF NameTaken(ctx.vendors, text)
                 THEN Ret(Send(ctx, u, "A restaurant with this name already exists."),
                          "reg_name_taken")
                 ELSE Ret(Send(CtxSet(ctx, ("reg_rest_step" :> "foods") @@
                                           ("new_rest" :> Put(data, "name", text))),
                               u, "Now choose foods:"), "reg_name")
            ELSE IF step = "custom_food"
            THEN IF PipeParts(text) # 4
                 THEN Ret(Send(ctx, u, "Invalid format."), "reg_custom_bad")
                 ELSE LET food == [name |-> "Wrap", ingredients |-> "salad",
                                   price |-> "5.00", quantity |-> "1"]
                          foods == [kind |-> "list",
                                    items |-> Append(FoodsOf(data).items, food)]
                      IN Ret(Send(CtxSet(ctx, ("reg_rest_step" :> "foods") @@
                                              ("new_rest" :> Put(data, "foods", foods))),
                                  u, "Added custom food"), "reg_custom_food")
            ELSE IF step = "description"
            THEN LET d2 == Put(Put(data, "description", text), "manager_id", u)
                     c1 == CtxSet(ctx, EmptyMap)
                 IN IF ~Has(d2, "name") THEN Raise(c1)
                    ELSE Ret(Send([c1 EXCEPT !.out = @ \o
                                      [i \in 1..Len(SortedSeq(ADMINS)) |->
                                          [to |-> SortedSeq(ADMINS)[i],
                                           text |-> "New Restaurant Request", draft |-> d2]]],
                                  u, "Your restaurant was sent for admin approval."),
                             "reg_description")
            ELSE ctx

\* bot.py:802-820
BlockAddFlow(u, text, s, ctx) ==
    IF ~Flag(s, "add_flow") THEN ctx
    ELSE IF text = "Restaurant"
         THEN Ret(Send(CtxSet(ctx, [add_rest |-> TRUE, step |-> "name", data |-> EmptyMap,
                                    add_flow |-> FALSE]),
                       u, "Send restaurant name:"), "add_flow_restaurant")
    ELSE IF text = "Food"
         THEN Ret(Send(CtxSet(ctx, [add_food |-> TRUE, step |-> "name", data |-> EmptyMap,
                                    add_flow |-> FALSE]),
                       u, "Send food name:"), "add_flow_food")
    ELSE ctx

\* bot.py:821-874
BlockAddRest(u, text, s, ctx) ==
    IF ~(Flag(s, "add_rest") /\ Has(s, "step")) THEN ctx
    ELSE LET data == IF Has(s, "data") THEN s["data"] ELSE EmptyMap
         IN IF s["step"] = "name"
            THEN Ret(Send(CtxSet(ctx, [add_rest |-> TRUE, step |-> "phone",
                                       data |-> Put(data, "name", text)]),
                          u, "Send restaurant phone number:"), "add_rest_name")
            ELSE IF s["step"] = "phone"
            THEN Ret(Send(CtxSet(ctx, [add_rest |-> TRUE, step |-> "location",
                                       data |-> Put(data, "phone", text)]),
                          u, "Share restaurant location:"), "add_rest_phone")
            ELSE IF s["step"] = "manager"
            THEN IF ManagerMatches(text) = <<>>
                 THEN Ret(Send(ctx, u, "No user found."), "add_rest_manager_none")
                 ELSE Ret(SendList(ctx, u, "Select restaurant manager:",
                                   Take(ManagerMatches(text), 5)), "add_rest_manager")
            ELSE ctx

\* bot.py:875-898
BlockAddFood(u, text, s, ctx) ==
    IF ~Flag(s, "add_food") THEN ctx
    ELSE IF ~Has(s, "data") \/ ~Has(s, "step") THEN Raise(ctx)
    ELSE LET data == s["data"]
         IN IF s["step"] = "name"
            THEN Ret(Send(CtxSet(ctx, [add_food |-> TRUE, step |-> "ingredients",
                                       data |-> Put(data, "name", text)]),
                          u, "Send ingredients:"), "add_food_name")
            ELSE IF s["step"] = "ingredients"
            THEN Ret(Send(CtxSet(ctx, [add_food |-> TRUE, step |-> "people",
                                       data |-> Put(data, "ingredients", text)]),
                          u, "How many people does this food serve?"), "add_food_ingredients")
            ELSE IF s["step"] = "people"
            THEN IF ~IsInt(text) THEN Raise(ctx)
                 ELSE Ret(Send(CtxClear([ctx EXCEPT !.gfoods = @ \cup
                                   {IF Has(data, "name") THEN data["name"] ELSE "unnamed"}]),
                               u, "Food added to global food list!"), "add_food_people")
            ELSE ctx

\* the foods transaction of bot.py:912-918 on a plain list
FoodsAppendTxn(foods, food) ==
    IF \E i \in 1..Len(foods.items) : foods.items[i].name = food.name THEN foods
    ELSE [kind |-> "list", items |-> Append(foods.items, food)]

\* bot.py:899-924
BlockAwaitingFoodPrice(u, text, s, ctx) ==
    IF ~Flag(s, "awaiting_food_price") THEN ctx
    ELSE IF ParseFloat(text) = -1 THEN Ret(Send(ctx, u, "Invalid price."), "food_price_bad")
    ELSE IF ~Has(s, "rid") \/ ~Has(s, "food_data") THEN Raise(ctx)
    ELSE LET food == Put(s["food_data"], "price", text)
             cur == FoodsOf(VendorRec(ctx.vendors, s["rid"]))
         IN IF cur.kind = "dict" \/ ~Has(food, "name") THEN Raise(ctx)
            ELSE Ret(Send(CtxClear([ctx EXCEPT !.vendors =
                              VendorPut(@, s["rid"], "foods", FoodsAppendTxn(cur, food))]),
                          u, "food added to restaurant."), "food_price")


\* an order commit that counts the order twice
CommitOrder_DoubleCount(ctx, u, pending, run_at) ==
    LET oid == NewOrderId(ctx.orders)
        rec == [order_id |-> oid, scheduled_for |-> IsoFormat(run_at),
                status |-> "scheduled", created_at |-> now] @@ pending
        rid == pending["restaurant_id"]
        vs1 == AddOrderToRestaurant(ctx.vendors, rid, oid)
        vs2 == IncrementRestOrdersCount(vs1, rid, 2)
    IN [ctx EXCEPT !.orders = Put(@, oid, rec), !.vendors = vs2,
                   !.jobs = ScheduleOrderNotification(@, oid, run_at, RestChatId(vs2, rid))]

\* bot.py:943-960: write the Order, update the vendor aggregates, register the job
CommitOrder(ctx, u, pending, run_at) ==
    LET oid == NewOrderId(ctx.orders)
        rec == [order_id |-> oid, scheduled_for |-> IsoFormat(run_at),
                status |-> "scheduled", created_at |-> now] @@ pending
        rid == pending["restaurant_id"]
        vs1 == IF ctx.appendOk THEN AddOrderToRestaurant(ctx.vendors, rid, oid)
               ELSE ctx.vendors
        vs2 == IF ctx.countOk THEN IncrementRestOrdersCount(vs1, rid, 1) ELSE vs1
    IN [ctx EXCEPT !.orders = Put(@, oid, rec), !.vendors = vs2,
                   !.jobs = ScheduleOrderNotification(@, oid, run_at, RestChatId(vs2, rid))]

\* an order commit whose aggregate updaters let a failed transaction escape:
\* the handler ends right after the Order record was written
BlockAwaitingSchedule_Propagate(u, text, s, ctx) ==
    IF ~(Flag(s, "awaiting_schedule") /\ Has(s, "pending_order")) THEN ctx
    ELSE LET asap == Lower(text) \in {"asap", "now"}
             run_at == IF asap THEN now ELSE ParseDateText(text)
         IN IF ~asap /\ ParseDateText(text) = -1
            THEN Ret(Send(ctx, u, "Invalid time."), "schedule_bad")
            ELSE IF NewOrderId(ctx.orders) = 0 THEN Ret(ctx, "bound")
            ELSE IF ~(ctx.appendOk /\ ctx.countOk)
            THEN Raise([ctx EXCEPT !.orders =
                            CommitOrder(ctx, u, s["pending_order"], run_at).orders])
            ELSE Ret(CtxSet(Send(CommitOrder(ctx, u, s["pending_order"], run_at),
                                 u, "Order placed!"), EmptyMap), "schedule_commit")

\* bot.py:926-964
BlockAwaitingSchedule(u, text, s, ctx) ==
    IF ~(Flag(s, "awaiting_schedule") /\ Has(s, "pending_order")) THEN ctx
    ELSE LET asap == Lower(text) \in {"asap", "now"}
             run_at == IF asap THEN now ELSE ParseDateText(text)
         IN IF ~asap /\ ParseDateText(text) = -1
            THEN Ret(Send(ctx, u, "Invalid time."), "schedule_bad")
            ELSE IF NewOrderId(ctx.orders) = 0 THEN Ret(ctx, "bound")
            ELSE Ret(CtxSet(Send(CommitOrder(ctx, u, s["pending_order"], run_at),
                                 u, "Order placed!"), EmptyMap), "schedule_commit")

\* the (dist, rid) list of "Closest restaurants" (bot.py:1028-1038)
ClosestList(vs, loc) ==
    LET located == {rid \in DOMAIN vs : Has(vs[rid], "location")}
        d == [rid \in located |->
                 Haversine(loc.lon, loc.lat, vs[rid]["location"].lon, vs[rid]["location"].lat)]
    IN SortByDist(located, d)

\* bot.py:966-1066: the menu options and the final "Unknown command"
BlockMenu(u, text, s, ctx) ==
    IF text = "Search by restaurant"
    THEN Ret(CtxSet(Send(ctx, u, "Send restaurant name:"),
                    [awaiting_search |-> TRUE, awaiting_search_type |-> "restaurant"]),
             "menu_search_restaurant")
    ELSE IF text = "Search by food"
    THEN Ret(CtxSet(Send(ctx, u, "Send food name:"),
                    [awaiting_search |-> TRUE, awaiting_search_type |-> "food"]),
             "menu_search_food")
    ELSE IF text = "Search by location"
    THEN Ret(CtxSet(Send(ctx, u, "Please share your location."),
                    [awaiting_search_by_location |-> TRUE]), "menu_search_location")
    ELSE IF text = "Top-rated"
    THEN IF ~AllNamed(ctx.vendors) THEN Raise(ctx)
         ELSE Ret(Send(ctx, u, "Top-rated restaurants:"), "menu_top_rated")
    ELSE IF text = "Least-ordered (fastest)"
    THEN IF ~AllNamed(ctx.vendors) THEN Raise(ctx)
         ELSE Ret(Send(ctx, u, "Fastest restaurants:"), "menu_least_ordered")
    ELSE IF text = "Closest restaurants"
    THEN IF ctx.lastloc = -1 THEN Ret(Send(ctx, u, "Share location first."), "menu_closest_none")
         ELSE LET lst == Take(ClosestList(ctx.vendors, [lat |-> ctx.lastloc, lon |-> 0]), 10)
              IN IF \E i \in 1..Len(lst) : ~Has(ctx.vendors[lst[i].rid], "name")
                 THEN Raise(ctx)
                 ELSE Ret(SendList(ctx, u, "Closest restaurants:", lst), "menu_closest")
    ELSE IF text = "My orders"
    THEN LET mine == SortedSeq({o \in DOMAIN ctx.orders : ctx.orders[o]["user_id"] = u})
         IN IF mine = <<>> THEN Ret(Send(ctx, u, "You have no orders."), "menu_my_orders")
            ELSE Ret(SendList(ctx, u, "Your orders:", mine), "menu_my_orders")
    ELSE Ret(Send(ctx, u, "Unknown command. Use /menu."), "unknown")

\* the blocks of general_text_handler in source order
Blocks ==
    <<"add_food_mode", "awaiting_search", "editing_rest", "edit_name",
      "awaiting_edit_search", "awaiting_food_data", "reg_rest_step", "add_flow",
      "add_rest", "add_food", "awaiting_food_price", "awaiting_schedule", "menu">>

RunBlock(name, u, text, s, ctx) ==
    CASE name = "add_food_mode" -> BlockAddFoodMode(u, text, s, ctx)
      [] name = "awaiting_search" -> BlockAwaitingSearch(u, text, s, ctx)
      [] name = "editing_rest" -> BlockEditingRest(u, text, s, ctx)
      [] name = "edit_name" -> BlockEditName(u, text, s, ctx)
      [] name = "awaiting_edit_search" -> BlockAwaitingEditSearch(u, text, s, ctx)
      [] name = "awaiting_food_data" -> BlockAwaitingFoodData(u, text, s, ctx)
      [] name = "reg_rest_step" -> BlockRegRest(u, text, s, ctx)
      [] name = "add_flow" -> BlockAddFlow(u, text, s, ctx)
      [] name = "add_rest" -> BlockAddRest(u, text, s, ctx)
      [] name = "add_food" -> BlockAddFood(u, text, s, ctx)
      [] name = "awaiting_food_price" -> BlockAwaitingFoodPrice(u, text, s, ctx)
      [] name = "awaiting_schedule" -> BlockAwaitingSchedule(u, text, s, ctx)
      [] name = "menu" -> BlockMenu(u, text, s, ctx)

\* the block in which the handler returned (or raised)
ReturnedIn(ctx, name) == IF Handled(ctx) THEN [ctx EXCEPT !.by = name] ELSE ctx

RECURSIVE RunBlocks(_, _, _, _, _)
\* blocks i.. run in order until one returns
RunBlocks(i, u, text, s, ctx) ==
    IF i > Len(Blocks) \/ Handled(ctx) THEN ctx
    ELSE RunBlocks(i + 1, u, text, s,
                   ReturnedIn(RunBlock(Blocks[i], u, text, s, ctx), Blocks[i]))

\* general_text_handler: the state is read once at entry; the first block that
\* returns wins
GeneralTextHandler(u, text) == RunBlocks(1, u, text, ustate[u], Ctx0(u))

\* a store whose state record is not keyed by the actor
CommitStore_SharedState(u, ctx, ev) ==
    /\ ctx.tag # "bound"
    /\ ustate' = [x \in Actors |-> ctx.st]
    /\ ulastloc' = [ulastloc EXCEPT ![u] = ctx.lastloc]
    /\ uphone' = [uphone EXCEPT ![u] = ctx.phone]
    /\ vendors' = ctx.vendors
    /\ orders' = ctx.orders
    /\ gfoods' = ctx.gfoods
    /\ restSeq' = ctx.restSeq
    /\ jobs' = ctx.jobs
    /\ lastOut' = ctx.out
    /\ lastEvent' = ev @@ [tag |-> ctx.tag, set |-> ctx.set, by |-> ctx.by, log |-> ctx.log]
    /\ UNCHANGED <<now, booted, dispatchCount, pastDue, txnVars>>

\* a handler run takes effect: its writes reach the store, its messages go out
CommitStore(u, ctx, ev) ==
    /\ ctx.tag # "bound"
    /\ ustate' = [ustate EXCEPT ![u] = ctx.st]
    /\ ulastloc' = [ulastloc EXCEPT ![u] = ctx.lastloc]
    /\ uphone' = [uphone EXCEPT ![u] = ctx.phone]
    /\ vendors' = ctx.vendors
    /\ orders' = ctx.orders
    /\ gfoods' = ctx.gfoods
    /\ restSeq' = ctx.restSeq
    /\ jobs' = ctx.jobs
    /\ lastOut' = ctx.out
    /\ lastEvent' = ev @@ [tag |-> ctx.tag, set |-> ctx.set, by |-> ctx.by, log |-> ctx.log]
    /\ UNCHANGED <<now, booted, dispatchCount, pastDue, txnVars>>

\* a handler that runs from its first read to its last write with no other
\* handler in between
Commit(u, ctx, ev) ==
    /\ CommitStore(u, ctx, ev)
    /\ UNCHANGED work

\* an inbound text message
TextEvent(u, text) ==
    Commit(u, GeneralTextHandler(u, text), [kind |-> "text", actor |-> u, text |-> text])

\* an inbound text message while the store lets the orders-list transaction
\* (appendOk) and the orders_count transaction (countOk) succeed or fail
TextEventTxn(u, text, appendOk, countOk) ==
    Commit(u, RunBlocks(1, u, text, ustate[u],
                        [Ctx0(u) EXCEPT !.appendOk = appendOk, !.countOk = countOk]),
           [kind |-> "text", actor |-> u, text |-> text,
            appendOk |-> appendOk, countOk |-> countOk])


(***************************************************************************)
(* Commands, contact and location events                                   *)
(***************************************************************************)
\* handle_start
HandleStart(u) ==
    LET c == Ctx0(u)
        r == IF uphone[u] = "none"
             THEN Ret(CtxSet(Send(c, u, "Welcome! Please share your contact."),
                             [awaiting_contact |-> TRUE]), "start_new")
             ELSE Ret(CtxSet(Send(c, u, "Welcome back!"), EmptyMap), "start_back")
    IN Commit(u, r, [kind |-> "cmd_start", actor |-> u])

\* the phone number a contact share carries
PhoneOf(u) == IF u = 1 THEN "p1" ELSE "p2"

\* handle_contact
HandleContact(u) ==
    LET c == [Ctx0(u) EXCEPT !.phone = PhoneOf(u)]
    IN Commit(u, Ret(CtxSet(Send(c, u, "Registered!"), EmptyMap), "contact"),
              [kind |-> "contact", actor |-> u])

\* cmd_add
CmdAdd(u) ==
    Commit(u, Ret(CtxSet(Send(Ctx0(u), u, "What do you want to add?"), [add_flow |-> TRUE]),
                  "cmd_add"),
           [kind |-> "cmd_add", actor |-> u])

\* add_food_cmd
AddFoodCmd(u) ==
    Commit(u, Ret(Send(CtxSet(Ctx0(u), [awaiting_food_data |-> TRUE]), u, "Send food as:"),
                  "cmd_add_food"),
           [kind |-> "cmd_add_food", actor |-> u])

\* handle_location; lat is the shared point (hundredths of a degree, lon = 0)
HandleLocationCtx(u, lat) ==
    LET s == ustate[u]
        c == Ctx0(u)
        loc == [lat |-> lat, lon |-> 0]
    IN IF Has(s, "reg_rest_step") /\ s["reg_rest_step"] = "location"
       THEN IF ~Has(s, "new_rest") THEN Raise(c)
            ELSE Ret(Send(CtxSet(c, ("reg_rest_step" :> "description") @@
                                    ("new_rest" :> Put(s["new_rest"], "location", loc))),
                          u, "Write restaurant description:"), "loc_reg")
       ELSE IF Flag(s, "awaiting_rest_location")
       THEN LET pending == Put(IF Has(s, "pending_rest") THEN s["pending_rest"] ELSE EmptyMap,
                               "location", loc)
                c1 == CtxSet(c, ("pending_rest" :> pending) @@
                                ("awaiting_rest_location" :> FALSE))
                c2 == Send(Send(c1, u, "Restaurant location saved."), u,
                           "Send the manager's TELEGRAM ID")
            IN Ret(CtxSet(c2, ("pending_rest" :> pending) @@
                              ("awaiting_rest_manager" :> TRUE)), "loc_pending_rest")
       ELSE IF Flag(s, "add_rest") /\ Has(s, "step") /\ s["step"] = "location"
       THEN IF ~Has(s, "data") THEN Raise(c)
            ELSE Ret(Send(CtxSet(c, [add_rest |-> TRUE, step |-> "manager",
                                     data |-> Put(s["data"], "location", loc)]),
                          u, "Send manager phone number or username:"), "loc_add_rest")
       ELSE IF Flag(s, "awaiting_search_by_location")
       THEN LET c1 == CtxSet([c EXCEPT !.lastloc = lat], EmptyMap)
                c2 == FindRestaurantsNearUser(c1, u, lat, 0)
            IN IF c2.tag = "exception" THEN c2 ELSE Ret(c2, "loc_search")
       ELSE Ret(Send([c EXCEPT !.lastloc = lat], u, "Location saved!"), "loc_default")

\* an inbound location message
HandleLocation(u, lat) ==
    Commit(u, HandleLocationCtx(u, lat), [kind |-> "location", actor |-> u, lat |-> lat])

\* the entry of vendor self-registration (spec 4.3: manager-initiated, first
\* step "name"); bot.py holds the steps but not this entry.  The draft starts
\* with the manager's id, the one field the store would keep of it.
StartRegistration(u) ==
    Commit(u, Ret(Send(CtxSet(Ctx0(u), ("reg_rest_step" :> "name") @@
                                       ("new_rest" :> ("manager_id" :> u))),
                       u, "Send restaurant name:"), "reg_start"),
           [kind |-> "reg_start", actor |-> u])


(***************************************************************************)
(* Vendor commit                                                           *)
(***************************************************************************)
\* make_rest_id: the next unused vendor id; 0 when the ids of the model are used up
NewRestId(seq) == IF seq >= MaxRests THEN 0 ELSE seq + 1

\* a record as the store keeps it: an empty foods list is not stored
VendorNorm(rec) ==
    IF Has(rec, "foods") /\ rec["foods"].items = <<>> THEN Without(rec, {"foods"}) ELSE rec

\* save_restaurant_and_finish
SaveRestaurantAndFinish(ctx, u, data) ==
    LET rid == NewRestId(ctx.restSeq)
        rec == VendorNorm(("id" :> rid) @@ ("foods" :> FoodsOf(data)) @@
                          ("created_at" :> now) @@ data)
        c1 == CtxClear([ctx EXCEPT !.vendors = Put(@, rid, rec), !.restSeq = rid])
    IN IF rid = 0 THEN Ret(ctx, "bound")
       ELSE IF ~Has(data, "name") THEN Raise(c1)
       ELSE Ret(Send(c1, u, "Restaurant added successfully!"), "save_restaurant")

\* a commit that forgets the draft's location
TryFinalizePendingRest_NoLocation(ctx, u) ==
    LET pending == IF Has(ctx.st, "pending_rest") THEN ctx.st["pending_rest"] ELSE EmptyMap
        rid == NewRestId(ctx.restSeq)
        rec == VendorNorm([id |-> rid, name |-> pending["name"], foods |-> FoodsOf(pending),
                           manager_chat_id |-> pending["manager_chat_id"], created_at |-> now])
    IN IF ~Has(pending, "name") \/ ~Has(pending, "manager_chat_id") \/ ~Has(pending, "location")
       THEN ctx
       ELSE IF rid = 0 THEN Ret(ctx, "bound")
       ELSE Send(CtxClear([ctx EXCEPT !.vendors = Put(@, rid, rec), !.restSeq = rid]),
                 u, "Restaurant registered")

\* attempt_finish_after_state_change and try_finalize_pending_rest
TryFinalizePendingRest(ctx, u) ==
    LET pending == IF Has(ctx.st, "pending_rest") THEN ctx.st["pending_rest"] ELSE EmptyMap
        rid == NewRestId(ctx.restSeq)
        img == IF Has(pending, "image_file_id")
               THEN ("image_file_id" :> pending["image_file_id"]) ELSE EmptyMap
        rec == VendorNorm([id |-> rid, name |-> pending["name"], foods |-> FoodsOf(pending),
                           manager_chat_id |-> pending["manager_chat_id"],
                           location |-> pending["location"], created_at |-> now] @@ img)
    IN IF ~Has(pending, "name") \/ ~Has(pending, "manager_chat_id") \/ ~Has(pending, "location")
       THEN ctx
       ELSE IF rid = 0 THEN Ret(ctx, "bound")
       ELSE Send(CtxClear([ctx EXCEPT !.vendors = Put(@, rid, rec), !.restSeq = rid]),
                 u, "Restaurant registered")

(***************************************************************************)
(* callback_handler and handle_photo                                       *)
(***************************************************************************)
\* call.data == "add_rest_send_image"
CbAddRestSendImage(u) ==
    Commit(u, Ret(Send(CtxSet(Ctx0(u), ("awaiting_rest_image" :> TRUE) @@ ustate[u]),
                       u, "Please send the restaurant photo."), "cb_send_image"),
           [kind |-> "cb_send_image", actor |-> u])

\* call.data == "add_rest_skip_image"
CbAddRestSkipImage(u) ==
    Commit(u, IF ~Has(ustate[u], "data") THEN Raise(Ctx0(u))
              ELSE SaveRestaurantAndFinish(Ctx0(u), u, ustate[u]["data"]),
           [kind |-> "cb_skip_image", actor |-> u])

\* action add_food_new
CbAddFoodNew(u, rid) ==
    Commit(u, Ret(Send(CtxSet(Ctx0(u), [add_food_mode |-> TRUE, rid |-> rid, step |-> "name"]),
                       u, "Send food name:"), "cb_add_food_new"),
           [kind |-> "cb_add_food_new", actor |-> u, rid |-> rid])

\* action edit_search
CbEditSearch(u) ==
    Commit(u, Ret(Send(CtxSet(Ctx0(u), [awaiting_edit_search |-> TRUE]),
                       u, "Send restaurant name:"), "cb_edit_search"),
           [kind |-> "cb_edit_search", actor |-> u])

\* action edit_rest
CbEditRest(u, rid) ==
    LET c == Ctx0(u)
        r == IF rid \notin DOMAIN vendors THEN Ret(c, "cb_edit_rest_missing")
             ELSE LET c1 == CtxSet(c, [editing_rest |-> TRUE, rid |-> rid])
                  IN IF ~Has(vendors[rid], "name") THEN Raise(c1)
                     ELSE Ret(Send(c1, u, "Choose what to edit:"), "cb_edit_rest")
    IN Commit(u, r, [kind |-> "cb_edit_rest", actor |-> u, rid |-> rid])

\* action cancel_add_rest_food
CbCancelAddRestFood(u) ==
    Commit(u, Ret(Send(CtxClear(Ctx0(u)), u, "Food adding cancelled."), "cb_cancel_food"),
           [kind |-> "cb_cancel_food", actor |-> u])

\* action confirm_delete_rest
CbConfirmDeleteRest(u, rid) ==
    Commit(u, Ret(Send([Ctx0(u) EXCEPT !.vendors = Without(@, {rid})],
                       u, "Restaurant removed"), "cb_delete_rest"),
           [kind |-> "cb_delete_rest", actor |-> u, rid |-> rid])

\* action add_existing_food; index counts from 0
CbAddExistingFood(u, rid, index) ==
    LET c == Ctx0(u)
        foods == FoodsOf(VendorRec(vendors, rid))
        r == IF index >= Len(foods.items) THEN Ret(c, "cb_existing_food_missing")
             ELSE IF foods.kind = "dict" THEN Raise(c)
             ELSE Ret(Send(CtxSet(c, [awaiting_food_price |-> TRUE, rid |-> rid,
                                      food_data |-> foods.items[index + 1]]),
                           u, "Send price"), "cb_existing_food")
    IN Commit(u, r, [kind |-> "cb_existing_food", actor |-> u, rid |-> rid])

\* action add_rest_select_manager
CbAddRestSelectManager(u, uid) ==
    LET s == ustate[u]
        base == IF Has(s, "pending_rest") THEN s["pending_rest"]
                ELSE IF Has(s, "data") THEN s["data"] ELSE EmptyMap
        pending == Put(base, "manager_chat_id", uid)
        c1 == Send(CtxSet(Ctx0(u), ("pending_rest" :> pending)), u, "Manager assigned")
        c2 == TryFinalizePendingRest(c1, u)
    IN Commit(u, IF c2.tag = "bound" THEN c2 ELSE Ret(c2, "cb_select_manager"),
              [kind |-> "cb_select_manager", actor |-> u, uid |-> uid])

Qtys == {1, 2}

\* action pick_qty
CbPickQty(u, rid, fname, qty) ==
    LET c == Ctx0(u)
        foods == FoodsOf(VendorRec(vendors, rid))
        hit == {i \in 1..Len(foods.items) : foods.items[i].name = fname}
        r == IF rid \notin DOMAIN vendors \/ foods.kind = "dict" THEN Raise(c)
             ELSE IF hit = {} THEN Ret(c, "cb_pick_qty_missing")
             ELSE LET food == foods.items[CHOOSE i \in hit : \A j \in hit : i <= j]
                      unit == IF Has(food, "price") THEN ParseFloat(food["price"]) ELSE 0
                      price == unit * qty
                      who == IF uphone[u] = "none" THEN EmptyMap ELSE ("phone" :> uphone[u])
                      pending == [restaurant_id |-> rid, items |-> <<[name |-> fname,
                                  qty |-> qty, price |-> price]>>, total_price |-> price,
                                  user_id |-> u, user_name |-> UserName(u)] @@ who @@
                                 (IF Has(vendors[rid], "name")
                                  THEN ("restaurant_name" :> vendors[rid]["name"])
                                  ELSE EmptyMap)
                  IN IF Has(food, "price") /\ unit = -1 THEN Raise(c)
                     ELSE Ret(Send(CtxSet(c, [awaiting_schedule |-> TRUE,
                                              pending_order |-> pending]),
                                   u, "When should we schedule?"), "cb_pick_qty")
    IN Commit(u, r, [kind |-> "cb_pick_qty", actor |-> u, rid |-> rid, qty |-> qty])

\* handle_photo; without a storage bucket the transport's file id is stored
HandlePhoto(u) ==
    LET s == ustate[u]
        c == Ctx0(u)
        r == IF DOMAIN s = {} THEN Ret(c, "photo_idle")
             ELSE IF Flag(s, "awaiting_rest_image") /\ Flag(s, "add_rest")
             THEN IF ~Has(s, "data") THEN Raise(c)
                  ELSE SaveRestaurantAndFinish(c, u, Put(s["data"], "image_file_id", "file1"))
             ELSE IF Flag(s, "awaiting_rest_photo")
             THEN LET pending == Put(IF Has(s, "pending_rest") THEN s["pending_rest"]
                                     ELSE EmptyMap, "image_file_id", "file1")
                      c1 == CtxSet(c, ("pending_rest" :> pending) @@
                                      ("awaiting_rest_photo" :> FALSE))
                      c2 == Send(Send(c1, u, "Photo saved."), u,
                                 "Send the manager's TELEGRAM ID (numeric).")
                  IN Ret(CtxSet(c2, ("pending_rest" :> pending) @@
                                    ("awaiting_rest_manager" :> TRUE)), "photo_pending")
             ELSE Ret(c, "photo_ignored")
    IN Commit(u, r, [kind |-> "photo", actor |-> u])


(***************************************************************************)
(* Specifications of the conversation machine                              *)
(***************************************************************************)
Burger == [name |-> "Burger", price |-> "5.00"]
PizzaFood == [name |-> "Pizza", price |-> "7.50"]

\* a store holding the vendors vs, with two registered actors, both idle
InitStore(vs) ==
    /\ ustate = [u \in Actors |-> EmptyMap]
    /\ uphone = [u \in Actors |-> PhoneOf(u)]
    /\ ulastloc = [u \in Actors |-> -1]
    /\ vendors = vs
    /\ orders = EmptyMap
    /\ gfoods = {}
    /\ restSeq = Cardinality(DOMAIN vs)
    /\ jobs = EmptyMap
    /\ now = 0
    /\ booted = TRUE
    /\ dispatchCount = [o \in OrderIds |-> 0]
    /\ pastDue = {}
    /\ lastOut = <<>>
    /\ lastEvent = [kind |-> "init"]
    /\ txn = [c \in Callers |-> TxnIdle]
    /\ txnCalls = 0
    /\ txnRetried = FALSE
    /\ appended = {}
    /\ deltaSum = 0
    /\ work = [c \in Callers |-> WorkIdle]

\* two vendors, one with a menu
InitConv ==
    InitStore((1 :> [id |-> 1, name |-> "Pizza Place", manager_chat_id |-> 2,
                     location |-> [lat |-> 0, lon |-> 0],
                     foods |-> [kind |-> "list", items |-> <<Burger, PizzaFood>>]])
           @@ (2 :> [id |-> 2, name |-> "Taco", manager_chat_id |-> 2]))

OrderTexts == {"ASAP", "Now", "2030-01-01 10:00", "Search by restaurant"}

\* order placement: menu text, quantity buttons, schedule text
NextOrder ==
    \/ \E u \in Actors, t \in OrderTexts : TextEvent(u, t)
    \/ \E u \in Actors, q \in Qtys : CbPickQty(u, 1, "Burger", q)

SpecOrder == InitConv /\ [][NextOrder]_vars


\* the unit price, in cents, of the first food of that name at a vendor
UnitPrice(vs, rid, fname) ==
    LET items == FoodsOf(VendorRec(vs, rid)).items
        hit == {i \in 1..Len(items) : items[i].name = fname}
    IN ParseFloat(items[CHOOSE i \in hit : \A j \in hit : i <= j].price)

\* a step in which actor u's text t is handled
TextStep(u, t) ==
    /\ lastEvent'.kind = "text"
    /\ lastEvent'.actor = u
    /\ lastEvent'.text = t

\* C5: at the schedule step with a pending order of q of a food priced p, the
\* text ASAP or now (any case) creates exactly one Order with total p*q, status
\* scheduled and scheduled_for = now, puts its id in the vendor's orders and
\* raises the vendor's orders_count by exactly 1.
C5_AsapCommitsOrder ==
    [][\A u \in Actors, t \in OrderTexts :
          (/\ TextStep(u, t)
           /\ Lower(t) \in {"asap", "now"}
           /\ Flag(ustate[u], "awaiting_schedule")
           /\ Has(ustate[u], "pending_order"))
          => LET p == ustate[u]["pending_order"]
                 rid == p["restaurant_id"]
                 new == DOMAIN orders' \ DOMAIN orders
                 cnt == IF Has(VendorRec(vendors, rid), "orders_count")
                        THEN vendors[rid]["orders_count"] ELSE 0
             IN /\ Cardinality(new) = 1
                /\ \A oid \in new :
                      /\ orders'[oid]["total_price"] =
                             UnitPrice(vendors, rid, p["items"][1].name) * p["items"][1].qty
                      /\ orders'[oid]["status"] = "scheduled"
                      /\ orders'[oid]["scheduled_for"] = IsoFormat(now)
                      /\ oid \in SeqToSet(vendors'[rid]["orders"])
                /\ vendors'[rid]["orders_count"] = cnt + 1]_vars


\* vendors near, far and without a location
InitSearch ==
    InitStore((1 :> [id |-> 1, name |-> "Pizza Place", location |-> [lat |-> 0, lon |-> 0]])
           @@ (2 :> [id |-> 2, name |-> "Taco", location |-> [lat |-> 9, lon |-> 0]])
           @@ (3 :> [id |-> 3, name |-> "Wok"]))

SearchTexts == {"Restaurant", "Wok", "Search by location"}
Lats == {0, 1, 5}

\* location search next to the admin's add-restaurant flow
NextSearch ==
    \/ \E u \in ADMINS : CmdAdd(u)
    \/ \E u \in ADMINS, t \in SearchTexts : TextEvent(u, t)
    \/ \E u \in ADMINS, lat \in Lats : HandleLocation(u, lat)

SpecSearch == InitSearch /\ [][NextSearch]_vars

\* the list holds only located vendors within the radius of (lat, 0), each with
\* its distance, in non-decreasing order of distance
GoodNearList(lst, lat) ==
    /\ \A k \in 1..Len(lst) :
          /\ lst[k].rid \in DOMAIN vendors
          /\ Has(vendors[lst[k].rid], "location")
          /\ lst[k].dist = Haversine(0, lat, vendors[lst[k].rid]["location"].lon,
                                     vendors[lst[k].rid]["location"].lat)
          /\ lst[k].dist <= RadiusM
    /\ \A k \in 1..Len(lst) - 1 : lst[k].dist <= lst[k + 1].dist

\* C8: a location event received while the actor's state has
\* awaiting_search_by_location returns only located vendors within 10 km in
\* non-decreasing order of distance, and leaves the actor idle.
C8_LocationSearch ==
    [][\A u \in Actors :
          (/\ lastEvent'.kind = "location"
           /\ lastEvent'.actor = u
           /\ Flag(ustate[u], "awaiting_search_by_location"))
          => /\ ustate'[u] = EmptyMap
             /\ \A i \in 1..Len(lastOut') :
                   Has(lastOut'[i], "list") => GoodNearList(lastOut'[i].list, lastEvent'.lat)]_vars


RegTexts == {"pizza place", "Wok"}

\* vendor self-registration next to a restaurant search, for two actors
NextReg ==
    \/ \E u \in Actors : StartRegistration(u)
    \/ \E u \in Actors, t \in RegTexts : TextEvent(u, t)
    \/ \E u \in Actors : CbEditSearch(u)

SpecReg == InitConv /\ [][NextReg]_vars

AdminTexts == {"Restaurant", "pizza place"}
AdminLats == {5}
Managers == {2}

\* the admin creates vendors via /add
NextAdmin ==
    \/ \E u \in ADMINS : CmdAdd(u)
    \/ \E u \in ADMINS, t \in AdminTexts : TextEvent(u, t)
    \/ \E u \in ADMINS, lat \in AdminLats : HandleLocation(u, lat)
    \/ \E u \in ADMINS, uid \in Managers : CbAddRestSelectManager(u, uid)
    \/ \E u \in ADMINS : CbAddRestSkipImage(u)

SpecAdmin == InitConv /\ [][NextAdmin]_vars

\* the user is told that the name is taken
RePrompted(out, u) ==
    \E i \in 1..Len(out) :
        out[i].to = u /\ out[i].text = "A restaurant with this name already exists."

\* C6: at the name step of vendor registration a text that equals an existing
\* vendor's name ignoring case creates no vendor, leaves the state at the
\* name step with the draft intact, and re-prompts the user.
C6_DuplicateNameRejected ==
    [][\A u \in Actors, t \in RegTexts :
          (/\ TextStep(u, t)
           /\ Has(ustate[u], "reg_rest_step")
           /\ ustate[u]["reg_rest_step"] = "name"
           /\ Has(ustate[u], "new_rest")
           /\ NameTaken(vendors, t))
          => /\ vendors' = vendors
             /\ Has(ustate'[u], "reg_rest_step")
             /\ ustate'[u]["reg_rest_step"] = "name"
             /\ Has(ustate'[u], "new_rest")
             /\ ustate'[u]["new_rest"] = ustate[u]["new_rest"]
             /\ RePrompted(lastOut', u)]_vars

\* C7: no two vendor records have names that are equal ignoring case.
C7_NamesUnique ==
    \A r1, r2 \in DOMAIN vendors :
        (r1 # r2 /\ Has(vendors[r1], "name") /\ Has(vendors[r2], "name"))
        => Lower(vendors[r1]["name"]) # Lower(vendors[r2]["name"])

\* the draft a commit event finds in the actor's state
DraftOf(s, kind) ==
    IF kind = "cb_select_manager" /\ Has(s, "pending_rest") THEN s["pending_rest"]
    ELSE IF Has(s, "data") THEN s["data"] ELSE EmptyMap

CommitKinds == {"cb_select_manager", "cb_skip_image", "photo"}

\* C9: a vendor record created by a commit of the draft reads back with the
\* name, the foods list and the location the draft held.
C9_CommitRoundTrip ==
    [][\A u \in Actors :
          (/\ lastEvent'.kind \in CommitKinds
           /\ lastEvent'.actor = u)
          => \A rid \in DOMAIN vendors' \ DOMAIN vendors :
                LET draft == DraftOf(ustate[u], lastEvent'.kind)
                    rec == vendors'[rid]
                IN /\ Opt(rec, "name") = Opt(draft, "name")
                   /\ FoodsOf(rec) = FoodsOf(draft)
                   /\ Opt(rec, "location") = Opt(draft, "location")]_vars

\* C9 witness: a draft with a name and a location has just been committed
\* through try_finalize_pending_rest.
C9_Witness ==
    /\ lastEvent.kind = "cb_select_manager"
    /\ lastOut # <<>>
    /\ lastOut[Len(lastOut)].text = "Restaurant registered"
    /\ restSeq \in DOMAIN vendors
    /\ Has(vendors[restSeq], "location")
    /\ vendors[restSeq]["location"].lat \in AdminLats
    /\ Has(vendors[restSeq], "name")

\* C10: after set_user_state(actor, m) the stored state of the actor is
\* exactly m.
C10_SetIsFullReplace ==
    [][(Has(lastEvent', "set") /\ lastEvent'.set.has)
          => ustate'[lastEvent'.actor] = lastEvent'.set.m]_vars


(***************************************************************************)
(* Flow discriminators and first-match dispatch                            *)
(***************************************************************************)
\* the fields whose presence tags a flow
Discriminators ==
    {"awaiting_contact", "add_flow", "add_rest", "add_food", "add_food_mode",
     "awaiting_food_data", "awaiting_food_price", "editing_rest", "awaiting_edit_search",
     "reg_rest_step", "awaiting_search", "awaiting_search_by_location", "awaiting_schedule"}

\* state.get(k) is truthy: a flag is True, a step name is present
Active(s, k) == IF k = "reg_rest_step" THEN Has(s, k) ELSE Flag(s, k)

ActiveFlows(s) == {k \in Discriminators : Active(s, k)}

\* C11: in every reachable state of every actor at most one flow
\* discriminator is active.
C11_OneDiscriminator ==
    \A u \in Actors : Cardinality(ActiveFlows(ustate[u])) <= 1


\* the condition of the if that opens a flow block of general_text_handler
Guard(name, s) ==
    CASE name = "add_food_mode" -> Flag(s, "add_food_mode")
      [] name = "awaiting_search" -> Flag(s, "awaiting_search")
      [] name = "editing_rest" -> Flag(s, "editing_rest")
      [] name = "edit_name" ->
            Flag(s, "editing_rest") /\ Has(s, "edit_step") /\ s["edit_step"] = "name"
      [] name = "awaiting_edit_search" -> Flag(s, "awaiting_edit_search")
      [] name = "awaiting_food_data" -> Flag(s, "awaiting_food_data")
      [] name = "reg_rest_step" -> Has(s, "reg_rest_step")
      [] name = "add_flow" -> Flag(s, "add_flow")
      [] name = "add_rest" -> Flag(s, "add_rest") /\ Has(s, "step")
      [] name = "add_food" -> Flag(s, "add_food")
      [] name = "awaiting_food_price" -> Flag(s, "awaiting_food_price")
      [] name = "awaiting_schedule" -> Flag(s, "awaiting_schedule") /\ Has(s, "pending_order")
      [] OTHER -> FALSE

\* the flow blocks whose guard holds in s, by position
Matching(s) == {i \in 1..Len(Blocks) : Guard(Blocks[i], s)}

\* C12: when the guard of some flow block holds for a text event, the first
\* such block is the one in which the handler returns: no later flow block
\* and no menu option handles the event.
C12_FirstMatchConsumes ==
    [][\A u \in Actors :
          (/\ lastEvent'.kind = "text"
           /\ lastEvent'.actor = u
           /\ Matching(ustate[u]) # {})
          => \E i \in Matching(ustate[u]) :
                /\ \A j \in Matching(ustate[u]) : i <= j
                /\ lastEvent'.by = Blocks[i]]_vars


(***************************************************************************)
(* Order of the effects inside one handler run                             *)
(***************************************************************************)
\* the log has a message sent at some point and the state written later
SendBeforeSet(log) ==
    \E i, j \in 1..Len(log) : i < j /\ log[i] = "send" /\ log[j] = "set"

\* C13: in every handler run the state is written before the prompt is
\* sent: no run sends a message first and writes the state afterwards.
C13_PersistBeforeSend ==
    [][Has(lastEvent', "log") => ~SendBeforeSet(lastEvent'.log)]_vars


(***************************************************************************)
(* Handlers on the worker threads of TeleBot(threaded=True)                *)
(***************************************************************************)
\* a worker thread takes a text event of actor u and reads the actor's state
\* (get_user_state at the entry of general_text_handler)
HandlerBegin(w, u, text) ==
    /\ work[w].pc = "idle"
    /\ work' = [work EXCEPT ![w] = [pc |-> "run", actor |-> u, text |-> text,
                                    s |-> ustate[u]]]
    /\ lastOut' = <<>>
    /\ lastEvent' = [kind |-> "begin", actor |-> u, worker |-> w]
    /\ UNCHANGED <<userVars, vendors, orders, gfoods, restSeq, schedVars, txnVars>>

\* the worker runs the blocks on the state it read and performs the writes
HandlerEnd(w) ==
    /\ work[w].pc = "run"
    /\ CommitStore(work[w].actor,
                   RunBlocks(1, work[w].actor, work[w].text, work[w].s, Ctx0(work[w].actor)),
                   [kind |-> "text", actor |-> work[w].actor, text |-> work[w].text])
    /\ work' = [work EXCEPT ![w] = WorkIdle]

ConcTexts == {"Search by restaurant", "Pizza Place"}

NextConc ==
    \/ \E w \in Callers, u \in Actors, t \in ConcTexts : HandlerBegin(w, u, t)
    \/ \E w \in Callers : HandlerEnd(w)

SpecConc == InitConv /\ [][NextConc]_vars

\* C14: no two handlers of the same actor run at the same time: a handler
\* reads the actor's state only when no other handler of that actor is
\* between its read and its last write.
C14_PerActorSerial ==
    \A w1, w2 \in Callers :
        (w1 # w2 /\ work[w1].pc = "run" /\ work[w2].pc = "run")
        => work[w1].actor # work[w2].actor


(***************************************************************************)
(* The job store under repeated registration                               *)
(***************************************************************************)
JobTimes == {1, 3}
MaxDispatch == 2

\* a running process whose store holds a scheduled order for every id
InitJobs ==
    /\ ustate = [u \in Actors |-> EmptyMap]
    /\ uphone = [u \in Actors |-> "p1"]
    /\ ulastloc = [u \in Actors |-> -1]
    /\ vendors = (SchedRest :> [name |-> "Taco", manager_chat_id |-> 2])
    /\ orders = [o \in OrderIds |-> PersistedOrder("scheduled", 3)]
    /\ gfoods = {}
    /\ restSeq = SchedRest
    /\ jobs = EmptyMap
    /\ now = 0
    /\ booted = TRUE
    /\ dispatchCount = [o \in OrderIds |-> 0]
    /\ pastDue = {}
    /\ lastOut = <<>>
    /\ lastEvent = [kind |-> "init"]
    /\ txn = [c \in Callers |-> TxnIdle]
    /\ txnCalls = 0
    /\ txnRetried = FALSE
    /\ appended = {}
    /\ deltaSum = 0
    /\ work = [c \in Callers |-> WorkIdle]

\* a call schedule_order_notification(oid, t, chat) in the running process
Schedule(oid, t) ==
    /\ booted
    /\ oid \in DOMAIN orders
    /\ dispatchCount[oid] < MaxDispatch
    /\ jobs' = ScheduleOrderNotification(jobs, oid, t,
                                         RestChatId(vendors, orders[oid]["restaurant_id"]))
    /\ lastOut' = <<>>
    /\ lastEvent' = [kind |-> "schedule", order |-> oid, run_at |-> t,
                     old |-> IF oid \in DOMAIN jobs THEN jobs[oid].run_at ELSE -1]
    /\ UNCHANGED <<userVars, auxVars, vendors, orders, now, booted, dispatchCount, pastDue,
                   txnVars>>

NextJobs ==
    \/ \E oid \in OrderIds, t \in JobTimes : Schedule(oid, t)
    \/ \E oid \in OrderIds : FireJob(oid)
    \/ \E oid \in OrderIds : MissJob(oid)
    \/ Tick

SpecJobs == InitJobs /\ [][NextJobs]_vars

\* the step is a call of schedule_order_notification for oid
ScheduleStep(oid) == lastEvent'.kind = "schedule" /\ lastEvent'.order = oid

\* the step is a dispatcher run for oid
FireStep(oid) == dispatchCount'[oid] = dispatchCount[oid] + 1

\* C15: the scheduler holds one job per order id and it carries the instant
\* of the latest schedule_order_notification call: a call replaces the
\* instant of a job already held, nothing else changes a held job, and the
\* dispatcher runs for an order only when that instant has been reached.
C15_RescheduleSupersedes ==
    [][\A oid \in OrderIds :
          /\ ScheduleStep(oid)
                => (oid \in DOMAIN jobs' /\ jobs'[oid].run_at = lastEvent'.run_at)
          /\ (~ScheduleStep(oid) /\ oid \in DOMAIN jobs')
                => (oid \in DOMAIN jobs /\ jobs'[oid] = jobs[oid])
          /\ FireStep(oid)
                => (oid \in DOMAIN jobs /\ jobs[oid].run_at <= now /\ oid \notin DOMAIN jobs')]_vars

\* C15 witness: a job held for instant 1 has just been registered again for
\* instant 3 while still pending, and the store holds it once, at instant 3.
C15_Witness ==
    /\ lastEvent.kind = "schedule"
    /\ lastEvent.old = 1
    /\ lastEvent.run_at = 3
    /\ now <= 1
    /\ jobs[lastEvent.order].run_at = 3


(***************************************************************************)
(* Order commit with a running clock and scheduler thread                  *)
(***************************************************************************)
NotifyTexts == {"ASAP", "2020-01-01 10:00", "2030-01-01 10:00"}

\* one user places orders while time passes and the scheduler thread runs
NextNotify ==
    \/ \E u \in ADMINS, t \in NotifyTexts : TextEvent(u, t)
    \/ \E u \in ADMINS : CbPickQty(u, 1, "Burger", 1)
    \/ \E oid \in OrderIds : FireJob(oid)
    \/ \E oid \in OrderIds : MissJob(oid)
    \/ Tick

SpecNotify == InitConv /\ [][NextNotify]_vars

\* the process keeps running: the clock advances and the scheduler thread
\* gets to every due job
FairNotify ==
    /\ SpecNotify
    /\ WF_vars(Tick)
    /\ \A oid \in OrderIds : WF_vars(FireJob(oid) \/ MissJob(oid))

\* C16: every job registered for a committed order eventually fires: the
\* dispatcher has then run for the order exactly once and the scheduler no
\* longer holds the job; it never runs twice and never before the job's instant.
C16_JobEventuallyFires ==
    /\ \A oid \in OrderIds :
          (oid \in DOMAIN jobs) ~> (dispatchCount[oid] = 1 /\ oid \notin DOMAIN jobs)
    /\ [][\A oid \in OrderIds :
             FireStep(oid) => (dispatchCount[oid] = 0 /\ jobs[oid].run_at <= now
                               /\ oid \notin DOMAIN jobs')]_vars


\* C17: the step in which restore_scheduled_orders runs in a fresh process
\* leaves the scheduler with one job for each Order whose status is
\* scheduled, at the instant stored in its scheduled_for, and with no job
\* for any other order.
C17_RestoreRegistersScheduled ==
    [][lastEvent'.kind = "restore" =>
          /\ DOMAIN jobs' = {o \in DOMAIN orders : orders[o]["status"] = "scheduled"}
          /\ \A o \in DOMAIN jobs' : jobs'[o].run_at = orders[o]["scheduled_for"][2]
          /\ \A o \in DOMAIN orders : orders[o]["status"] = "served" => o \notin DOMAIN jobs']_vars

\* C17 witness: restore has just run over a store holding a scheduled and a
\* served order; only the scheduled one has a job.
C17_Witness ==
    /\ lastEvent.kind = "restore"
    /\ \E o \in DOMAIN orders : orders[o]["status"] = "scheduled" /\ o \in DOMAIN jobs
                                /\ jobs[o].run_at = 2
    /\ \E o \in DOMAIN orders : orders[o]["status"] = "served" /\ o \notin DOMAIN jobs


\* C18: when the send of a dispatcher run raises, nothing is sent, the job
\* is gone all the same (no second attempt), no Order record changes, and
\* the scheduler keeps running with the jobs of the other orders as they were.
C18_SendFailureContained ==
    [][\A oid \in OrderIds :
          (FireStep(oid) /\ ~lastEvent'.ok) =>
              /\ lastOut' = <<>>
              /\ oid \notin DOMAIN jobs'
              /\ orders' = orders
              /\ booted'
              /\ \A o \in DOMAIN jobs \ {oid} : o \in DOMAIN jobs' /\ jobs'[o] = jobs[o]]_vars

\* C18 witness: a send has just failed for one order while the job of
\* another order is due and still held by the running scheduler.
C18_Witness ==
    /\ lastEvent.kind = "fire"
    /\ ~lastEvent.ok
    /\ dispatchCount[lastEvent.order] = 1
    /\ lastEvent.order \notin DOMAIN jobs
    /\ booted
    /\ \E o \in DOMAIN jobs : JobDue(o) /\ ~Misfired(jobs[o].run_at)


(***************************************************************************)
(* Order commit over a store whose aggregate transactions may fail         *)
(***************************************************************************)
CommitTexts == {"ASAP", "2030-01-01 10:00", "tomorrowish"}

NextCommit ==
    \/ \E u \in ADMINS, t \in CommitTexts, appendOk \in BOOLEAN, countOk \in BOOLEAN :
          TextEventTxn(u, t, appendOk, countOk)
    \/ \E u \in ADMINS, q \in Qtys : CbPickQty(u, 1, "Burger", q)

SpecCommit == InitConv /\ [][NextCommit]_vars

\* the actor answers the schedule question with a usable time while one of
\* the two aggregate transactions fails
FailedAggregateCommit(u) ==
    /\ lastEvent'.kind = "text"
    /\ lastEvent'.actor = u
    /\ ~(lastEvent'.appendOk /\ lastEvent'.countOk)
    /\ Flag(ustate[u], "awaiting_schedule")
    /\ Has(ustate[u], "pending_order")
    /\ Lower(lastEvent'.text) \in {"asap", "now"} \/ ParseDateText(lastEvent'.text) # -1
    /\ NewOrderId(orders) # 0

\* C19: an order commit during which the orders-list transaction or the
\* orders_count transaction fails still ends normally: the new Order record
\* is stored as scheduled, its job is registered, the user is sent the
\* confirmation and the actor's state is empty.
C19_AggregateFailureNonFatal ==
    [][\A u \in Actors :
          FailedAggregateCommit(u) =>
              LET oid == NewOrderId(orders)
              IN /\ lastEvent'.tag # "exception"
                 /\ oid \in DOMAIN orders'
                 /\ orders'[oid]["status"] = "scheduled"
                 /\ oid \in DOMAIN jobs'
                 /\ \E i \in 1..Len(lastOut') :
                       lastOut'[i] = [to |-> u, text |-> "Order placed!"]
                 /\ ustate'[u] = EmptyMap]_vars

\* C19 witness: an order was just committed although both aggregate
\* transactions failed: the vendor's list and counter do not know it.
C19_Witness ==
    /\ lastEvent.kind = "text"
    /\ Has(lastEvent, "appendOk")
    /\ ~lastEvent.appendOk /\ ~lastEvent.countOk
    /\ lastEvent.tag = "schedule_commit"
    /\ \E oid \in DOMAIN orders :
          /\ oid \in DOMAIN jobs
          /\ ~Has(VendorRec(vendors, 1), "orders")
          /\ ~Has(VendorRec(vendors, 1), "orders_count")


(***************************************************************************)
(* The life of an Order record                                             *)
(***************************************************************************)
\* orders are placed, the clock runs, jobs fire, and vendors mark orders served
NextLife ==
    \/ NextNotify
    \/ \E oid \in OrderIds : ExternalMarkServed(oid)

SpecLife == InitConv /\ [][NextLife]_vars

OrderStatuses == {"scheduled", "served"}

\* C20: no step removes an Order record, every record's status is scheduled
\* or served, and a record that is served stays served.
C20_OrderLifecycle ==
    [][/\ \A o \in DOMAIN orders :
             /\ o \in DOMAIN orders'
             /\ orders[o]["status"] = "served" => orders'[o]["status"] = "served"
       /\ \A o \in DOMAIN orders' : orders'[o]["status"] \in OrderStatuses]_vars

\* C20 witness: an order has just been committed while an earlier order,
\* already served and dispatched, is still on record as served.
C20_Witness ==
    /\ lastEvent.kind = "text"
    /\ lastEvent.tag = "schedule_commit"
    /\ \E o \in DOMAIN orders : orders[o]["status"] = "served" /\ dispatchCount[o] = 1
    /\ \E o \in DOMAIN orders : orders[o]["status"] = "scheduled" /\ o \in DOMAIN jobs


(***************************************************************************)
(* Abandoning a flow                                                       *)
(***************************************************************************)
\* edit_restaurant_cmd: sends the first page of vendors; it writes no state
EditRestaurantCmd(u) ==
    LET c == Ctx0(u)
    IN Commit(u, IF ~AllNamed(vendors) THEN Raise(c)
                 ELSE Ret(SendList(c, u, "Select restaurant to edit",
                                   SortedSeq(DOMAIN vendors)), "cmd_edit"),
              [kind |-> "cmd_edit", actor |-> u])

MenuOptions ==
    {"Search by restaurant", "Search by food", "Search by location", "Top-rated",
     "Least-ordered (fastest)", "Closest restaurants", "My orders"}

AbandonTexts == {"ASAP", "Cancel", "Search by restaurant"}

\* an order flow or an admin flow is entered, then left by a command, a menu
\* option or Cancel
NextAbandon ==
    \/ \E u \in ADMINS : CbPickQty(u, 1, "Burger", 1)
    \/ \E u \in ADMINS : HandleStart(u)
    \/ \E u \in ADMINS : CmdAdd(u)
    \/ \E u \in ADMINS : AddFoodCmd(u)
    \/ \E u \in ADMINS : EditRestaurantCmd(u)
    \/ \E u \in ADMINS, t \in AbandonTexts : TextEvent(u, t)

SpecAbandon == InitConv /\ [][NextAbandon]_vars

\* the event ev is 'Cancel' or a new top-level command of its actor
AbandonEvent(ev) ==
    \/ ev.kind \in {"cmd_start", "cmd_add", "cmd_add_food", "cmd_edit"}
    \/ ev.kind = "text" /\ ev.text \in MenuOptions \cup {"Cancel"}

\* the state the event ev asked the store to hold
Stored(ev) == IF ev.set.has THEN StoreNorm(ev.set.m) ELSE EmptyMap

\* C21: when an actor in a flow sends Cancel or a new top-level command, the
\* persisted state afterwards holds only what that event stored, and the
\* actor's next text is handled by the menu or by the flow the event
\* started, never by a block of the abandoned flow.
C21_AbandonLeavesNoTrace ==
    [][\A u \in Actors :
          /\ (AbandonEvent(lastEvent') /\ lastEvent'.actor = u /\ ustate[u] # EmptyMap)
                => DOMAIN ustate'[u] \subseteq DOMAIN Stored(lastEvent')
          /\ (/\ AbandonEvent(lastEvent) /\ lastEvent.actor = u
              /\ lastEvent'.kind = "text" /\ lastEvent'.actor = u)
                => (lastEvent'.by = "menu" \/ Guard(lastEvent'.by, Stored(lastEvent)))]_vars


(***************************************************************************)
(* Vendor management by privileged and other actors                        *)
(***************************************************************************)
\* delete_restaurant_cmd: one confirm_delete_rest button per vendor
DeleteRestaurantCmd(u) ==
    LET c == Ctx0(u)
    IN Commit(u, IF ~AllNamed(vendors) THEN Raise(c)
                 ELSE Ret(SendList(c, u, "Select restaurant to delete",
                                   SortedSeq(DOMAIN vendors)), "cmd_delete"),
              [kind |-> "cmd_delete", actor |-> u])

\* the last message to u carries a button for vendor rid
Offered(u, rid) ==
    /\ lastOut # <<>>
    /\ lastOut[Len(lastOut)].to = u
    /\ Has(lastOut[Len(lastOut)], "list")
    /\ \E i \in 1..Len(lastOut[Len(lastOut)].list) : lastOut[Len(lastOut)].list[i] = rid

AuthTexts == {"Name", "Wok"}

\* /delete and /edit with the buttons they offer, for every actor
NextAuth ==
    \/ \E u \in Actors : DeleteRestaurantCmd(u)
    \/ \E u \in Actors, rid \in RestIds : Offered(u, rid) /\ lastEvent.kind = "cmd_delete"
                                          /\ CbConfirmDeleteRest(u, rid)
    \/ \E u \in Actors : EditRestaurantCmd(u)
    \/ \E u \in Actors, rid \in RestIds : Offered(u, rid) /\ lastEvent.kind = "cmd_edit"
                                          /\ CbEditRest(u, rid)
    \/ \E u \in Actors, t \in AuthTexts : TextEvent(u, t)

SpecAuth == InitConv /\ [][NextAuth]_vars

\* C22: the Vendor collection changes only in a step that handles an event
\* of an actor on the ADMINS allow-list.
C22_OnlyAdminsChangeVendors ==
    [][vendors' # vendors => lastEvent'.actor \in ADMINS]_vars


(***************************************************************************)
(* Orders for a vendor that has been deleted                               *)
(***************************************************************************)
StaleTexts == {"ASAP", "2030-01-01 10:00", "Search by restaurant"}

\* an order flow for vendor 1 while vendor 1 may be deleted at any moment
NextStale ==
    \/ \E u \in ADMINS, q \in Qtys : CbPickQty(u, 1, "Burger", q)
    \/ \E u \in ADMINS : CbConfirmDeleteRest(u, 1)
    \/ \E u \in ADMINS, t \in StaleTexts : TextEvent(u, t)

SpecStale == InitConv /\ [][NextStale]_vars

\* the step handles an order-flow event of u that refers to vendor rid, which
\* is not in the store: a pick_qty press, or a usable schedule time for a
\* pending order of rid
StaleOrderEvent(u, rid) ==
    /\ rid \notin DOMAIN vendors
    /\ lastEvent'.actor = u
    /\ \/ lastEvent'.kind = "cb_pick_qty" /\ lastEvent'.rid = rid
       \/ /\ lastEvent'.kind = "text"
          /\ Flag(ustate[u], "awaiting_schedule")
          /\ Has(ustate[u], "pending_order")
          /\ ustate[u]["pending_order"]["restaurant_id"] = rid
          /\ (Lower(lastEvent'.text) \in {"asap", "now"} \/ ParseDateText(lastEvent'.text) # -1)

\* C23: an order-flow event that refers to a deleted vendor creates no Order
\* record, writes nothing under the vendor's key and leaves the actor idle.
C23_StaleVendorAborts ==
    [][\A u \in Actors, rid \in RestIds :
          StaleOrderEvent(u, rid) =>
              /\ orders' = orders
              /\ rid \notin DOMAIN vendors'
              /\ ustate'[u] = EmptyMap]_vars


\* the actor is at the schedule step and sends a text that is no usable time
BadScheduleText(u, t) ==
    /\ TextStep(u, t)
    /\ Flag(ustate[u], "awaiting_schedule")
    /\ Has(ustate[u], "pending_order")
    /\ Lower(t) \notin {"asap", "now"}
    /\ ParseDateText(t) = -1

\* C24: at the schedule step a text that is neither ASAP/now nor a date only
\* re-prompts: the actor's state, the orders, the vendors and the jobs are
\* as before and the actor is told the time is invalid.
C24_BadTimeRePrompts ==
    [][\A u \in Actors, t \in OrderTexts :
          BadScheduleText(u, t) =>
              /\ \E i \in 1..Len(lastOut') : lastOut'[i] = [to |-> u, text |-> "Invalid time."]
              /\ ustate'[u] = ustate[u]
              /\ orders' = orders
              /\ vendors' = vendors
              /\ jobs' = jobs]_vars


(***************************************************************************)
(* Food prices                                                             *)
(***************************************************************************)
PriceTexts == {"-5", "5", "abc"}
MaxFoods == 3

\* the two ways to give a vendor a food, and the vendor's deletion
NextPrice ==
    \/ \E u \in ADMINS : CbAddFoodNew(u, 1)
    \/ \E u \in ADMINS : CbAddExistingFood(u, 1, 0)
    \/ \E u \in ADMINS : CbConfirmDeleteRest(u, 1)
    \/ \E u \in ADMINS, t \in PriceTexts :
          /\ Len(FoodsOf(VendorRec(vendors, 1)).items) < MaxFoods
          /\ TextEvent(u, t)

SpecPrice == InitConv /\ [][NextPrice]_vars

\* every food of every vendor that has a price has a non-negative number
PricesNonNegative ==
    \A rid \in DOMAIN vendors :
        \A i \in 1..Len(FoodsOf(vendors[rid]).items) :
            LET f == FoodsOf(vendors[rid]).items[i]
            IN Has(f, "price") => ParseFloat(f["price"]) >= 0

\* u's text t, which is no non-negative number, is handled by a price step
BadPriceStep(u, t) ==
    /\ TextStep(u, t)
    /\ ParseFloat(t) < 0
    /\ \/ lastEvent'.by = "add_food_mode" /\ ustate[u]["step"] = "price"
       \/ lastEvent'.by = "awaiting_food_price"

\* C25: every Food of a Vendor always has a non-negative numeric price, and a
\* price step that receives a text which is no non-negative number writes
\* no Food and leaves the actor's state as it was.
C25_PricesNonNegative ==
    /\ []PricesNonNegative
    /\ [][\A u \in Actors, t \in PriceTexts :
             BadPriceStep(u, t) => (vendors' = vendors /\ ustate'[u] = ustate[u])]_vars


(***************************************************************************)
(* Two actors side by side                                                 *)
(***************************************************************************)
IsoTexts == {"ASAP", "Search by restaurant"}

\* both actors order from vendor 1, which either of them may delete
NextIso ==
    \/ \E u \in Actors : CbPickQty(u, 1, "Burger", 1)
    \/ \E u \in Actors : CbConfirmDeleteRest(u, 1)
    \/ \E u \in Actors : CmdAdd(u)
    \/ \E u \in Actors, t \in IsoTexts : TextEvent(u, t)

SpecIso == InitConv /\ [][NextIso]_vars

\* C26: a step that handles an event of actor a, whether its handler
\* returns or raises, leaves the persisted state of every other actor as it was.
C26_ActorIsolation ==
    [][\A a \in Actors, b \in Actors :
          (lastEvent'.actor = a /\ b # a) => ustate'[b] = ustate[b]]_vars

\* C26 witness: a handler of one actor has just raised after that actor had
\* a state of its own, while another actor is in the middle of a flow.
C26_Witness ==
    /\ lastEvent.kind = "cb_pick_qty"
    /\ lastEvent.tag = "exception"
    /\ ustate[lastEvent.actor] # EmptyMap
    /\ \E b \in Actors \ {lastEvent.actor} :
          Flag(ustate[b], "awaiting_schedule") /\ Has(ustate[b], "pending_order")


(***************************************************************************)
(* Flows that run to their end                                             *)
(***************************************************************************)
DoneTexts == {"ASAP", "Search by restaurant", "Name", "Cancel", "5"}

\* ordering, searching, renaming a vendor, pricing a food, cancelling an edit
NextDone ==
    \/ \E u \in ADMINS : CbPickQty(u, 1, "Burger", 1)
    \/ \E u \in ADMINS : CbEditRest(u, 1)
    \/ \E u \in ADMINS : CbAddExistingFood(u, 1, 0)
    \/ \E u \in ADMINS : CbCancelAddRestFood(u)
    \/ \E u \in ADMINS, t \in DoneTexts : TextEvent(u, t)

SpecDone == InitConv /\ [][NextDone]_vars

\* the returns at which a flow is complete or cancelled
CompletionTags ==
    {"schedule_commit", "add_food_mode_price", "food_price", "food_data", "add_food_people",
     "save_restaurant", "edit_name", "reg_description", "search_restaurant", "search_food",
     "loc_search", "edit_cancel", "cb_cancel_food"}

\* C27: after a step in which a flow of actor u completes or is cancelled,
\* the persisted state of u is the empty mapping.
C27_CompletionClearsState ==
    [][\A u \in Actors :
          (lastEvent'.actor = u /\ (lastEvent'.tag \in CompletionTags \/ restSeq' # restSeq))
              => ustate'[u] = EmptyMap]_vars

\* C27 witness: a vendor has just been renamed by an actor who came out of
\* a longer flow, and that actor's state is empty.
C27_Witness ==
    /\ lastEvent.kind = "text"
    /\ lastEvent.tag = "edit_name"
    /\ Len(lastEvent.log) >= 2
    /\ ustate[lastEvent.actor] = EmptyMap
    /\ vendors[1]["name"] # "Pizza Place"


(***************************************************************************)
(* Admin-driven vendor creation: the photo step                            *)
(***************************************************************************)
\* the events that answer the optional-photo step: a photo, or the skip button
PhotoAnswers == {"photo", "cb_skip_image"}

\* C28: in admin-driven vendor creation a Vendor record is written only by the
\* step that answers the optional-photo step (a photo received, or the skip
\* button); selecting the manager alone commits no vendor.
C28_PhotoStepBeforeCommit ==
    [][restSeq' # restSeq => lastEvent'.kind \in PhotoAnswers]_vars


PhotoTexts == {"Restaurant", "Wok", "p2"}

\* admin-driven vendor creation, the manager button pressed only when offered
NextPhoto ==
    \/ \E u \in ADMINS : CmdAdd(u)
    \/ \E u \in ADMINS, t \in PhotoTexts : TextEvent(u, t)
    \/ \E u \in ADMINS, lat \in AdminLats : HandleLocation(u, lat)
    \/ \E u \in ADMINS, uid \in Actors : Offered(u, uid) /\ CbAddRestSelectManager(u, uid)
    \/ \E u \in ADMINS : CbAddRestSendImage(u)
    \/ \E u \in ADMINS : CbAddRestSkipImage(u)
    \/ \E u \in ADMINS : HandlePhoto(u)

SpecPhoto == InitConv /\ [][NextPhoto]_vars


(***************************************************************************)
(* Vendor editing: the Location sub-edit                                   *)
(***************************************************************************)
EditLocTexts == {"Location", "Name", "Wok", "Cancel"}
EditLats == {5, 7}

\* an admin picks a vendor to edit, chooses a sub-edit and shares a point
NextEditLoc ==
    \/ \E u \in ADMINS : EditRestaurantCmd(u)
    \/ \E u \in ADMINS, rid \in DOMAIN vendors : CbEditRest(u, rid)
    \/ \E u \in ADMINS, t \in EditLocTexts : TextEvent(u, t)
    \/ \E u \in ADMINS, lat \in EditLats : HandleLocation(u, lat)

SpecEditLoc == InitConv /\ [][NextEditLoc]_vars

\* u has selected vendor rid for editing and chosen the Location sub-edit
EditingLocation(u, rid) ==
    /\ Flag(ustate[u], "editing_rest")
    /\ Has(ustate[u], "edit_step") /\ ustate[u]["edit_step"] = "location"
    /\ Has(ustate[u], "rid") /\ ustate[u]["rid"] = rid
    /\ rid \in DOMAIN vendors

\* C29: after vendor V was selected for editing and the Location sub-edit was
\* chosen, the actor's next location event stores the shared point as V's
\* location and returns the actor to idle; the point is not taken as the
\* actor's own last location.
C29_EditLocationUpdatesVendor ==
    [][\A u \in Actors, rid \in 1..MaxRests :
          (EditingLocation(u, rid) /\ lastEvent'.kind = "location" /\ lastEvent'.actor = u)
              => /\ rid \in DOMAIN vendors'
                 /\ Has(vendors'[rid], "location")
                 /\ vendors'[rid]["location"] = [lat |-> lastEvent'.lat, lon |-> 0]
                 /\ ustate'[u] = EmptyMap
                 /\ ulastloc'[u] = ulastloc[u]]_vars


(***************************************************************************)
(* Vendor self-registration: approval                                      *)
(***************************************************************************)
\* the Done button of the foods step (spec 4.3: foods, then description);
\* bot.py offers the button (line 754) but holds no step for it
MgrFoodDone(u) ==
    LET s == ustate[u]
        c == Ctx0(u)
        r == IF Has(s, "reg_rest_step") /\ s["reg_rest_step"] = "foods" /\ Has(s, "new_rest")
             THEN Ret(Send(CtxSet(c, ("reg_rest_step" :> "description") @@
                                     ("new_rest" :> s["new_rest"])),
                           u, "Write restaurant description:"), "mgr_food_done")
             ELSE Ret(c, "mgr_food_done_idle")
    IN Commit(u, r, [kind |-> "mgr_food_done", actor |-> u])

\* callback_handler for an action no branch names: the fallback answers
\* "Unknown action" on the button and writes nothing
CbFallback(u, action, data) ==
    Commit(u, Ret(Ctx0(u), "cb_unknown"),
           [kind |-> "cb_fallback", actor |-> u, action |-> action, data |-> data])

\* the drafts whose approval request was just sent to admin u
SentForApproval(u) ==
    {lastOut[i].draft : i \in {j \in 1..Len(lastOut) :
                                 Has(lastOut[j], "draft") /\ lastOut[j].to = u}}

ApproveTexts == {"Wok", "Thai", "pizza place"}
ApprovalActions == {"approve_rest", "reject_rest"}

\* actors register vendors; the admin presses a button of the request
NextApprove ==
    \/ \E u \in Actors : StartRegistration(u)
    \/ \E u \in Actors, t \in ApproveTexts : TextEvent(u, t)
    \/ \E u \in Actors : MgrFoodDone(u)
    \/ \E u \in ADMINS, a \in ApprovalActions :
          \E d \in SentForApproval(u) : CbFallback(u, a, d)

SpecApprove == InitConv /\ [][NextApprove]_vars

\* C30: once a registration draft has been sent for approval, an admin's
\* approve_rest press commits a Vendor record built from that draft (its name
\* and its manager), and a reject_rest press creates no Vendor record.
C30_ApprovalDecides ==
    [][(lastEvent'.kind = "cb_fallback" /\ lastEvent'.actor \in ADMINS)
          => /\ lastEvent'.action = "approve_rest"
                  => \E rid \in DOMAIN vendors' \ DOMAIN vendors :
                        /\ vendors'[rid]["name"] = lastEvent'.data["name"]
                        /\ vendors'[rid]["manager_chat_id"] = lastEvent'.data["manager_id"]
             /\ lastEvent'.action = "reject_rest" => vendors' = vendors]_vars


(***************************************************************************)
(* The "mark served" button of a vendor notification                       *)
(***************************************************************************)
\* the order ids of the notifications just delivered to chat u, each of
\* which carries a mark_served button (bot.py:203-205)
NotifiedOrders(u) ==
    {lastOut[i].order : i \in {j \in 1..Len(lastOut) :
                                 Has(lastOut[j], "order") /\ lastOut[j].to = u}}

\* the scheduler runs over persisted orders; the vendor presses the button of
\* a notification it received
NextServed ==
    \/ RestoreScheduledOrders
    \/ \E oid \in OrderIds : FireJob(oid)
    \/ \E oid \in OrderIds : MissJob(oid)
    \/ Tick
    \/ Restart
    \/ \E u \in Actors : \E oid \in NotifiedOrders(u) : CbFallback(u, "mark_served", oid)

SpecServed == InitSched /\ [][NextServed]_vars

\* C31: a press of the mark_served button attached to a vendor notification
\* turns that order's status from scheduled into served, and a press for an
\* order that is no longer scheduled changes no order.
C31_MarkServedOnce ==
    [][(lastEvent'.kind = "cb_fallback" /\ lastEvent'.action = "mark_served")
          => LET oid == lastEvent'.data
             IN IF oid \in DOMAIN orders /\ orders[oid]["status"] = "scheduled"
                THEN orders' = [orders EXCEPT ![oid] = Put(@, "status", "served")]
                ELSE orders' = orders]_vars


(***************************************************************************)
(* The order commit on worker threads, one store access per step           *)
(***************************************************************************)
\* the handler run of worker w ends in the order commit of bot.py:943-964
PlacesOrder(w) ==
    /\ work[w].pc = "run"
    /\ RunBlocks(1, work[w].actor, work[w].text, work[w].s, Ctx0(work[w].actor)).tag
           \in {"schedule_commit", "bound"}

\* bot.py:943-951: the id is made and the Order record is written
PlaceWrite(w) ==
    /\ PlacesOrder(w)
    /\ NewOrderId(orders) # 0
    /\ LET oid == NewOrderId(orders)
           pending == work[w].s["pending_order"]
           run_at == IF Lower(work[w].text) \in {"asap", "now"} THEN now
                     ELSE ParseDateText(work[w].text)
           rec == [order_id |-> oid, scheduled_for |-> IsoFormat(run_at),
                   status |-> "scheduled", created_at |-> now] @@ pending
       IN /\ orders' = Put(orders, oid, rec)
          /\ work' = [work EXCEPT ![w] = [pc |-> "add_read", actor |-> work[w].actor,
                                          text |-> work[w].text, s |-> work[w].s,
                                          oid |-> oid, run_at |-> run_at,
                                          rid |-> pending["restaurant_id"]]]
          /\ lastEvent' = [kind |-> "place_write", actor |-> work[w].actor, worker |-> w,
                           order |-> oid]
    /\ lastOut' = <<>>
    /\ UNCHANGED <<userVars, vendors, gfoods, restSeq, schedVars, txnVars>>

\* the transaction of add_order_to_restaurant (954) or of
\* increment_rest_orders_count (955) reads the stored value
PlaceTxnRead(w) ==
    /\ work[w].pc \in {"add_read", "inc_read"}
    /\ LET add == work[w].pc = "add_read"
           f == TxnField(IF add THEN "add" ELSE "inc")
       IN /\ work' = [work EXCEPT ![w] =
                         [pc |-> IF add THEN "add_cas" ELSE "inc_cas",
                          snap |-> Opt(VendorRec(vendors, work[w].rid), f)] @@ @]
          /\ appended' = IF add THEN appended \cup {work[w].oid} ELSE appended
          /\ deltaSum' = IF add THEN deltaSum ELSE deltaSum + 1
    /\ lastOut' = <<>>
    /\ lastEvent' = [kind |-> "place_read", actor |-> work[w].actor, worker |-> w]
    /\ UNCHANGED <<userVars, vendors, orders, gfoods, restSeq, schedVars, txn, txnCalls,
                   txnRetried>>

\* the store's compare-and-set for that transaction: commit, or retry on the
\* value now stored
PlaceTxnCas(w) ==
    /\ work[w].pc \in {"add_cas", "inc_cas"}
    /\ LET add == work[w].pc = "add_cas"
           kind == IF add THEN "add" ELSE "inc"
           stored == Opt(VendorRec(vendors, work[w].rid), TxnField(kind))
       IN IF CasCommit(stored, work[w].snap)
          THEN /\ vendors' = VendorPut(vendors, work[w].rid, TxnField(kind),
                                       TxnApply(kind, work[w].snap,
                                                IF add THEN work[w].oid ELSE 1))
               /\ work' = [work EXCEPT ![w] =
                              [pc |-> IF add THEN "inc_read" ELSE "finish"] @@ @]
               /\ UNCHANGED txnRetried
          ELSE /\ work' = [work EXCEPT ![w] = [snap |-> stored] @@ @]
               /\ txnRetried' = TRUE
               /\ UNCHANGED vendors
    /\ lastOut' = <<>>
    /\ lastEvent' = [kind |-> "place_cas", actor |-> work[w].actor, worker |-> w]
    /\ UNCHANGED <<userVars, orders, gfoods, restSeq, schedVars, txn, txnCalls, appended,
                   deltaSum>>

\* bot.py:957-964: the job is registered, the confirmation sent, the state cleared
PlaceFinish(w) ==
    /\ work[w].pc = "finish"
    /\ jobs' = ScheduleOrderNotification(jobs, work[w].oid, work[w].run_at,
                                         RestChatId(vendors, work[w].rid))
    /\ ustate' = [ustate EXCEPT ![work[w].actor] = SetUserState(@, EmptyMap)]
    /\ lastOut' = <<[to |-> work[w].actor, text |-> "Order placed!"]>>
    /\ lastEvent' = [kind |-> "placed", actor |-> work[w].actor, worker |-> w,
                     order |-> work[w].oid]
    /\ work' = [work EXCEPT ![w] = WorkIdle]
    /\ UNCHANGED <<uphone, ulastloc, vendors, orders, gfoods, restSeq, now, booted,
                   dispatchCount, pastDue, txnVars>>

PlaceTexts == {"ASAP"}

\* an actor picks a quantity and answers the schedule prompt, more than once;
\* the answers are handled on the worker threads
NextPlace ==
    \/ \E u \in ADMINS : CbPickQty(u, 1, "Burger", 1)
    \/ \E w \in Callers, u \in ADMINS, t \in PlaceTexts : HandlerBegin(w, u, t)
    \/ \E w \in Callers : ~PlacesOrder(w) /\ HandlerEnd(w)
    \/ \E w \in Callers : PlaceWrite(w)
    \/ \E w \in Callers : PlaceTxnRead(w)
    \/ \E w \in Callers : PlaceTxnCas(w)
    \/ \E w \in Callers : PlaceFinish(w)

SpecPlace == InitConv /\ [][NextPlace]_vars

\* no worker is between the Order write and the end of its commit
NoCommitRunning == \A w \in Callers : work[w].pc \in {"idle", "run"}

OrdersList(rid) == IF Has(vendors[rid], "orders") THEN vendors[rid]["orders"] ELSE <<>>
OrdersCount(rid) == IF Has(vendors[rid], "orders_count") THEN vendors[rid]["orders_count"] ELSE 0

\* C32: whenever no order commit is in the middle of executing, every
\* vendor's orders_count equals the number of order ids in its orders list.
C32_CountMatchesList ==
    NoCommitRunning => \A rid \in DOMAIN vendors : OrdersCount(rid) = Len(OrdersList(rid))

\* C32 witness: two commits ran at the same time on vendor 1, one of them
\* had to retry a transaction, and both are done.
C32_Witness ==
    /\ NoCommitRunning
    /\ txnRetried
    /\ Len(OrdersList(1)) = 2
    /\ OrdersCount(1) = 2


\* worker w has written the Order of its run and not yet cleared the state
Committing(w) == work[w].pc \notin {"idle", "run"}

\* C33: one pending-order draft produces at most one Order record: two
\* handler runs of the same actor that read the same draft never both write
\* an Order.
C33_OneOrderPerDraft ==
    \A w1, w2 \in Callers :
        (/\ w1 # w2
         /\ Committing(w1) /\ Committing(w2)
         /\ work[w1].actor = work[w2].actor
         /\ work[w1].s = work[w2].s)
        => work[w1].oid = work[w2].oid


(***************************************************************************)
(* Vendor editing: what a free text renames                                *)
(***************************************************************************)
\* the reply keyboard offered after a vendor was selected (bot.py:1240-1243)
SubEditButtons == {"Name", "Location", "Image", "Add Food", "Cancel"}

\* C34: right after a vendor was selected with the edit_rest button, a text
\* of the same actor that is none of the sub-edit buttons leaves every vendor
\* as it is: a name is overwritten only after the Name sub-edit was chosen
\* for the vendor just selected.
C34_RenameOnlyAfterNameChoice ==
    [][(/\ lastEvent.kind = "cb_edit_rest"
        /\ lastEvent.tag = "cb_edit_rest"
        /\ lastEvent'.kind = "text"
        /\ lastEvent'.actor = lastEvent.actor
        /\ lastEvent'.text \notin SubEditButtons)
          => vendors' = vendors]_vars


(***************************************************************************)
(* Notified orders across restarts                                         *)
(***************************************************************************)
\* the process keeps running between restarts: the clock advances, the start
\* runs restore_scheduled_orders, the scheduler thread gets to every due job
FairSched ==
    /\ SpecSched
    /\ WF_vars(Tick)
    /\ WF_vars(RestoreScheduledOrders)
    /\ \A oid \in OrderIds : WF_vars(FireJob(oid) \/ MissJob(oid))

\* the notification of order o has just been delivered
Delivered(o) ==
    /\ lastEvent.kind = "fire"
    /\ lastEvent.order = o
    /\ lastEvent.ok
    /\ lastOut # <<>>

\* a process start has just registered a job for order o, still scheduled
RestoredJob(o) ==
    /\ lastEvent.kind = "restore"
    /\ o \in DOMAIN jobs
    /\ orders[o]["status"] = "scheduled"

\* the dispatcher has just run for order o
Dispatched(o) == lastEvent.kind = "fire" /\ lastEvent.order = o

\* the process stopped, or the order was marked served, before the job ran
JobMoot(o) == ~booted \/ (o \in DOMAIN orders /\ orders[o]["status"] = "served")

\* C35: an order whose notification was delivered keeps the status scheduled,
\* so every later process start registers a job for it again, and that job
\* leads to another dispatcher run for the order (unless the process stops
\* or the order is marked served first).
C35_NotifiedOrderDispatchedAgain ==
    \A o \in OrderIds :
        [](Delivered(o) => [](RestoredJob(o) => <>(Dispatched(o) \/ JobMoot(o))))


(***************************************************************************)
(* Browsing to an order: the buttons from a search result to a quantity    *)
(***************************************************************************)
\* a message with an inline keyboard whose buttons carry action btn
SendButtons(ctx, to, btn, extra, list) ==
    [ctx EXCEPT !.out = Append(@, [to |-> to, btn |-> btn, list |-> list] @@ extra),
                !.log = Append(@, "send")]

\* the last message sent to u offers a button of action btn for x, with the
\* payload fields of extra
OfferedButton(u, btn, extra, x) ==
    /\ lastOut # <<>>
    /\ LET msg == lastOut[Len(lastOut)]
       IN /\ msg.to = u
          /\ Has(msg, "btn") /\ msg.btn = btn
          /\ \A k \in DOMAIN extra : Has(msg, k) /\ msg[k] = extra[k]
          /\ \E i \in 1..Len(msg.list) : msg.list[i] = x

\* action select_rest: the vendor's card with its view_menu buttons
CbSelectRest(u, rid) ==
    LET c == Ctx0(u)
        r == IF rid \notin DOMAIN vendors THEN Ret(c, "cb_select_rest_missing")
             ELSE Ret(SendButtons(c, u, "view_menu", EmptyMap, <<rid>>), "cb_select_rest")
    IN Commit(u, r, [kind |-> "cb_select_rest", actor |-> u, rid |-> rid])

\* action view_menu: one choose_food button per food
CbViewMenu(u, rid) ==
    LET c == Ctx0(u)
        foods == FoodsOf(VendorRec(vendors, rid))
        r == IF rid \notin DOMAIN vendors \/ foods.items = <<>>
             THEN Ret(c, "cb_view_menu_none")
             ELSE IF foods.kind = "dict" \/ ~Has(vendors[rid], "name") THEN Raise(c)
             ELSE Ret(SendButtons(c, u, "choose_food", [rid |-> rid],
                                  [i \in 1..Len(foods.items) |-> foods.items[i].name]),
                      "cb_view_menu")
    IN Commit(u, r, [kind |-> "cb_view_menu", actor |-> u, rid |-> rid])

\* action choose_food: the quantity buttons 1..5
CbChooseFood(u, rid, fname) ==
    Commit(u, Ret(SendButtons(Ctx0(u), u, "pick_qty", [rid |-> rid, food |-> fname],
                              <<1, 2, 3, 4, 5>>), "cb_choose_food"),
           [kind |-> "cb_choose_food", actor |-> u, rid |-> rid, food |-> fname])

GateTexts == {"Search by restaurant", "Pizza Place", "ASAP"}
GateFoods == {"Burger", "Pizza"}

\* a store with one vendor and actors that have not shared a contact
InitGate ==
    /\ InitCommon
    /\ vendors = (1 :> [id |-> 1, name |-> "Pizza Place", manager_chat_id |-> 2,
                        foods |-> [kind |-> "list", items |-> <<Burger, PizzaFood>>]])

\* an actor registers or not, searches a vendor and follows the buttons the
\* bot offers up to the schedule prompt
NextGate ==
    \/ \E u \in ADMINS : HandleStart(u)
    \/ \E u \in ADMINS : HandleContact(u)
    \/ \E u \in ADMINS, t \in GateTexts : TextEvent(u, t)
    \/ \E u \in ADMINS, rid \in RestIds :
          /\ lastEvent.kind = "text" /\ lastEvent.tag = "search_restaurant"
          /\ Offered(u, rid)
          /\ CbSelectRest(u, rid)
    \/ \E u \in ADMINS, rid \in RestIds :
          OfferedButton(u, "view_menu", EmptyMap, rid) /\ CbViewMenu(u, rid)
    \/ \E u \in ADMINS, rid \in RestIds, f \in GateFoods :
          OfferedButton(u, "choose_food", [rid |-> rid], f) /\ CbChooseFood(u, rid, f)
    \/ \E u \in ADMINS, rid \in RestIds, f \in GateFoods, q \in Qtys :
          OfferedButton(u, "pick_qty", [rid |-> rid, food |-> f], q) /\ CbPickQty(u, rid, f, q)

SpecGate == InitGate /\ [][NextGate]_vars

\* C36: every Order record carries a contact phone: an actor who has never
\* shared a contact cannot commit an Order.
C36_OrdersCarryPhone ==
    \A o \in DOMAIN orders : Has(orders[o], "phone") /\ orders[o]["phone"] # "none"

=============================================================================
